---- MODULE Spec2Model ----
(***************************************************************************)
(* Lifecycle orchestration and shutdown coordination of fx.               *)
(*                                                                         *)
(*   lifecycle.Lifecycle  (hooks, numStarted; Append, Start, Stop)         *)
(*   fx.App               (err, Start, Stop, start, withTimeout, Done)     *)
(*   fx.App.broadcastSignal / shutdowner.Shutdown                          *)
(*                                                                         *)
(* An error value is a sequence of atomic errors: <<>> is nil, a one       *)
(* element sequence a plain error, a longer one a multierr error.          *)
(***************************************************************************)
EXTENDS Integers, Sequences, FiniteSets, TLC

\* ------------------------------------------------------------------ bounds
MaxHooks == 2
MaxCalls == 3
MaxTimeouts == 1
MaxSlots == 3
MaxFresh == 1
MaxBroadcasts == 2
MaxOpts == 3

\* ------------------------------------------------------------- error values
Nil == <<>>
ErrStart(i) == [kind |-> "start", hook |-> i]
ErrStop(i) == [kind |-> "stop", hook |-> i]
ErrConstruction == [kind |-> "construction", hook |-> 0]
DeadlineExceeded == [kind |-> "deadline", hook |-> 0]

\* multierr.Combine(errs...): nil when there is none, else all of them
Combine(errs) == errs

\* multierr.Append(left, right): both sides, flattened, left first
MultiAppend(left, right) == left \o right

Contains(err, e) == \E k \in 1..Len(err) : err[k] = e

\* ------------------------------------------------------------------- hooks
\* Hook{OnStart, OnStop}: each callback is nil, returns nil, or returns an error
Callbacks == {"nil", "ok", "err"}
Hook == [onStart : Callbacks, onStop : Callbacks]

Calls == 1..MaxCalls

Broadcasts == 1..MaxBroadcasts

VARIABLES
    hooks,       \* Lifecycle.hooks
    numStarted,  \* Lifecycle.numStarted
    appErr,      \* App.err
    crashed,     \* the process is over: a runtime panic, or the exit of Fatalf
    ncalls,      \* calls of App.Start / App.Stop made so far
    cur,         \* the call the caller is blocked in (0: none)
    ctxDone,     \* the context of the current call is done
    kind,        \* per call: "start" | "stop" | "none"
    pc,          \* per call: where its goroutine is
    rangeLen,    \* per call: len(l.hooks) as evaluated by range in Lifecycle.Start
    iter,        \* per call: index of the range loop of Lifecycle.Start (1-based)
    tmp,         \* per call: l.numStarted as read by l.numStarted++ / l.numStarted--
    inHook,      \* per call: the hook whose callback the goroutine is executing
    startErr,    \* per call: err of app.lifecycle.Start in App.start
    errs,        \* per call: errs of Lifecycle.Stop
    chan,        \* per call: channel c of withTimeout (capacity 1)
    result,      \* per call: <<>> while the caller waits, <<v>> once it returned v
    atCall,      \* per call: l.numStarted when the call was made
    startLog,    \* per call: hooks whose OnStart the goroutine invoked, in order
    stopLog,     \* per call: hooks whose OnStop the goroutine invoked, in order
    dones,       \* App.dones: the channels (capacity 1) handed out by Done
    bpc,         \* per broadcast: where broadcastSignal is
    bi,          \* per broadcast: index of its range loop over app.dones (1-based)
    unsent,      \* per broadcast: unsent of broadcastSignal
    bresult,     \* per broadcast: the error broadcastSignal returned
    pre,         \* per broadcast: app.dones as it was when the read lock was taken
    alone,       \* per broadcast: nothing else touched a channel while it ran
    tried,       \* per broadcast: per channel tried so far, whether it took the signal
    fresh,       \* the channels Done has made and passed to signal.Notify but not yet appended
    ctxBound,    \* the context of the current call has a deadline or a cancel
    opts,        \* the options passed to New
    npc,         \* where New is
    ni,          \* index of the loop New is in (1-based)
    provides,    \* App.provides
    invokes,     \* App.invokes
    errorHooks,  \* App.errorHooks
    handled,     \* the calls of ErrorHandler.HandleError made so far, in order
    registered,  \* indices in App.provides of the constructors the container accepted
    executed,    \* indices in App.invokes of the functions passed to container.Invoke
    runPc,       \* where App.run is
    runSlot      \* index in App.dones of the channel App.Run got from Done (0: none)

lcVars == <<hooks, numStarted, appErr, crashed, ncalls, cur, ctxDone, kind, pc,
            rangeLen, iter, tmp, inHook, startErr, errs, chan, result, atCall,
            startLog, stopLog, ctxBound>>

\* lcVars but App.err, which New sets
lcRest == <<hooks, numStarted, crashed, ncalls, cur, ctxDone, kind, pc, rangeLen,
            iter, tmp, inHook, startErr, errs, chan, result, atCall, startLog,
            stopLog, ctxBound>>

\* lcVars but crashed, which the end of the process sets
lcLive == <<hooks, numStarted, appErr, ncalls, cur, ctxDone, kind, pc, rangeLen,
            iter, tmp, inHook, startErr, errs, chan, result, atCall, startLog,
            stopLog, ctxBound>>

newVars == <<opts, npc, ni, provides, invokes, errorHooks, handled, registered, executed>>

runVars == <<runPc, runSlot>>

sdVars == <<dones, bpc, bi, unsent, bresult, pre, alone, tried, fresh>>

vars == <<lcVars, sdVars, newVars, runVars>>

\* ------------------------------------------------------------ construction
\* lifecycle.New: numStarted 0; no call of Start or Stop made, no channel
\* handed out by Done, no broadcast
InitCalls ==
    /\ numStarted = 0
    /\ crashed = FALSE
    /\ ncalls = 0
    /\ cur = 0
    /\ ctxDone = FALSE
    /\ kind = [c \in Calls |-> "none"]
    /\ pc = [c \in Calls |-> "idle"]
    /\ rangeLen = [c \in Calls |-> 0]
    /\ iter = [c \in Calls |-> 0]
    /\ tmp = [c \in Calls |-> 0]
    /\ inHook = [c \in Calls |-> 0]
    /\ startErr = [c \in Calls |-> Nil]
    /\ errs = [c \in Calls |-> <<>>]
    /\ chan = [c \in Calls |-> <<>>]
    /\ result = [c \in Calls |-> <<>>]
    /\ atCall = [c \in Calls |-> 0]
    /\ startLog = [c \in Calls |-> <<>>]
    /\ stopLog = [c \in Calls |-> <<>>]
    /\ dones = <<>>
    /\ bpc = [b \in Broadcasts |-> "idle"]
    /\ bi = [b \in Broadcasts |-> 0]
    /\ unsent = [b \in Broadcasts |-> 0]
    /\ bresult = [b \in Broadcasts |-> Nil]
    /\ pre = [b \in Broadcasts |-> <<>>]
    /\ alone = [b \in Broadcasts |-> TRUE]
    /\ tried = [b \in Broadcasts |-> <<>>]
    /\ fresh = <<>>
    /\ ctxBound = FALSE

\* lifecycle.New: no hooks. fx.New leaves App.err nil or set.
InitApp ==
    /\ hooks = <<>>
    /\ appErr \in {Nil, <<ErrConstruction>>}
    /\ InitCalls

\* an App whose construction is over, with no error handler, that Run has not
\* been called on
Init ==
    /\ InitApp
    /\ opts = <<>>
    /\ npc = "done"
    /\ ni = 0
    /\ provides = <<>>
    /\ invokes = <<>>
    /\ errorHooks = <<>>
    /\ handled = <<>>
    /\ registered = <<>>
    /\ executed = <<>>
    /\ runPc = "idle"
    /\ runSlot = 0

\* ------------------------------------------------------- Lifecycle.Append
\* variant: the hook is put in front of the others
Mutant_AppendInFront(h) ==
    /\ ~crashed
    /\ cur = 0
    /\ Len(hooks) < MaxHooks
    /\ hooks' = <<h>> \o hooks
    /\ UNCHANGED <<newVars, runVars, sdVars, ctxBound, atCall, numStarted, appErr, crashed, ncalls, cur, ctxDone, kind, pc,
                   rangeLen, iter, tmp, inHook, startErr, errs, chan, result,
                   startLog, stopLog>>

Append_(h) ==
    /\ ~crashed
    /\ cur = 0
    /\ Len(hooks) < MaxHooks
    /\ hooks' = Append(hooks, h)
    /\ UNCHANGED <<newVars, runVars, sdVars, ctxBound, atCall, numStarted, appErr, crashed, ncalls, cur, ctxDone, kind, pc,
                   rangeLen, iter, tmp, inHook, startErr, errs, chan, result,
                   startLog, stopLog>>

\* -------------------------------------------------- App.Start / App.Stop
\* withTimeout: make the channel, start the goroutine, block in select
Spawn(k, entry, bound) ==
    /\ ~crashed
    /\ cur = 0
    /\ ncalls < MaxCalls
    /\ ncalls' = ncalls + 1
    /\ cur' = ncalls + 1
    /\ ctxDone' = FALSE
    /\ ctxBound' = bound
    /\ kind' = [kind EXCEPT ![ncalls + 1] = k]
    /\ pc' = [pc EXCEPT ![ncalls + 1] = entry]
    /\ atCall' = [atCall EXCEPT ![ncalls + 1] = numStarted]
    /\ UNCHANGED <<newVars, sdVars, hooks, numStarted, appErr, crashed, rangeLen, iter, tmp, inHook,
                   startErr, errs, chan, result, startLog, stopLog>>

\* App.Start(ctx), called directly: ctx is whatever the caller passes, with a
\* deadline or a cancel (bound) or without (context.Background())
Start == (\E bound \in BOOLEAN : Spawn("start", "app_start", bound)) /\ UNCHANGED runVars

\* App.Stop(ctx), called directly
Stop == (\E bound \in BOOLEAN : Spawn("stop", "stop_loop", bound)) /\ UNCHANGED runVars

\* calls that returned ctx.Err()
TimedOut == {c \in Calls : result[c] = <<(<<DeadlineExceeded>>)>>}

\* variant: a timer of the configured timeout runs whatever context was passed
Mutant_CtxExpireAlways ==
    /\ ~crashed
    /\ cur # 0
    /\ ~ctxDone
    /\ Cardinality(TimedOut) < MaxTimeouts
    /\ ctxDone' = TRUE
    /\ UNCHANGED <<newVars, runVars, sdVars, ctxBound, atCall, hooks, numStarted, appErr, crashed, ncalls, cur, kind, pc,
                   rangeLen, iter, tmp, inHook, startErr, errs, chan, result,
                   startLog, stopLog>>

\* the caller's context reaches its deadline or is cancelled
CtxExpire ==
    /\ ~crashed
    /\ cur # 0
    /\ ctxBound
    /\ ~ctxDone
    /\ Cardinality(TimedOut) < MaxTimeouts
    /\ ctxDone' = TRUE
    /\ UNCHANGED <<newVars, runVars, sdVars, ctxBound, atCall, hooks, numStarted, appErr, crashed, ncalls, cur, kind, pc,
                   rangeLen, iter, tmp, inHook, startErr, errs, chan, result,
                   startLog, stopLog>>

\* variant: the caller joins the goroutine before it honours ctx.Done()
Mutant_SelectCtxDoneJoins ==
    /\ ~crashed
    /\ cur # 0
    /\ ctxDone
    /\ pc[cur] = "done"
    /\ result' = [result EXCEPT ![cur] = <<(<<DeadlineExceeded>>)>>]
    /\ cur' = 0
    /\ ctxDone' = FALSE
    /\ ctxBound' = FALSE
    /\ UNCHANGED <<newVars, runVars, sdVars, atCall, hooks, numStarted, appErr, crashed, ncalls, kind, pc,
                   rangeLen, iter, tmp, inHook, startErr, errs, chan, startLog, stopLog>>

\* variant: the rollback has a context of its own, so that the end of the
\* context of Start no longer ends the wait once the rollback has begun
Mutant_SelectCtxDoneBeforeRollback ==
    /\ ~crashed
    /\ cur # 0
    /\ ctxDone
    /\ startErr[cur] = Nil
    /\ result' = [result EXCEPT ![cur] = <<(<<DeadlineExceeded>>)>>]
    /\ cur' = 0
    /\ ctxDone' = FALSE
    /\ ctxBound' = FALSE
    /\ UNCHANGED <<newVars, runVars, sdVars, atCall, hooks, numStarted, appErr, crashed, ncalls, kind, pc,
                   rangeLen, iter, tmp, inHook, startErr, errs, chan, startLog, stopLog>>

\* variant: the select returns nil when the context is done
Mutant_SelectCtxDoneReturnsNil ==
    /\ ~crashed
    /\ cur # 0
    /\ ctxDone
    /\ result' = [result EXCEPT ![cur] = <<Nil>>]
    /\ cur' = 0
    /\ ctxDone' = FALSE
    /\ ctxBound' = FALSE
    /\ UNCHANGED <<newVars, runVars, sdVars, atCall, hooks, numStarted, appErr, crashed, ncalls, kind, pc,
                   rangeLen, iter, tmp, inHook, startErr, errs, chan, startLog, stopLog>>

\* variant: returning ctx.Err() also ends the goroutine of the call
Mutant_SelectCtxDoneCancels ==
    /\ ~crashed
    /\ cur # 0
    /\ ctxDone
    /\ result' = [result EXCEPT ![cur] = <<(<<DeadlineExceeded>>)>>]
    /\ pc' = [pc EXCEPT ![cur] = "done"]
    /\ inHook' = [inHook EXCEPT ![cur] = 0]
    /\ cur' = 0
    /\ ctxDone' = FALSE
    /\ ctxBound' = FALSE
    /\ UNCHANGED <<newVars, runVars, sdVars, atCall, hooks, numStarted, appErr, crashed, ncalls, kind,
                   rangeLen, iter, tmp, startErr, errs, chan, startLog, stopLog>>

\* select, case <-ctx.Done(): return ctx.Err()
SelectCtxDone ==
    /\ ~crashed
    /\ cur # 0
    /\ ctxDone
    /\ result' = [result EXCEPT ![cur] = <<(<<DeadlineExceeded>>)>>]
    /\ cur' = 0
    /\ ctxDone' = FALSE
    /\ ctxBound' = FALSE
    /\ UNCHANGED <<newVars, runVars, sdVars, atCall, hooks, numStarted, appErr, crashed, ncalls, kind, pc,
                   rangeLen, iter, tmp, inHook, startErr, errs, chan, startLog, stopLog>>

\* select, case err := <-c: return err
SelectResult ==
    /\ ~crashed
    /\ cur # 0
    /\ chan[cur] # <<>>
    /\ result' = [result EXCEPT ![cur] = <<chan[cur][1]>>]
    /\ chan' = [chan EXCEPT ![cur] = <<>>]
    /\ cur' = 0
    /\ ctxDone' = FALSE
    /\ ctxBound' = FALSE
    /\ UNCHANGED <<newVars, runVars, sdVars, atCall, hooks, numStarted, appErr, crashed, ncalls, kind, pc,
                   rangeLen, iter, tmp, inHook, startErr, errs, startLog, stopLog>>

\* variant: c := make(chan error), a send that waits for the receiver
Mutant_SendUnbuffered(c, v) ==
    /\ cur = c
    /\ chan' = [chan EXCEPT ![c] = Append(@, v)]
    /\ pc' = [pc EXCEPT ![c] = "done"]

\* go func() { c <- f(ctx) }(): f has returned v; the send waits for room in
\* c, made with capacity 1
Send(c, v) ==
    /\ Len(chan[c]) < 1
    /\ chan' = [chan EXCEPT ![c] = Append(@, v)]
    /\ pc' = [pc EXCEPT ![c] = "done"]

\* variant: App.start without the app.err short-circuit
Mutant_AppStartEnterNoCheck(c) ==
    /\ ~crashed
    /\ pc[c] = "app_start"
    /\ pc' = [pc EXCEPT ![c] = "start_loop"]
    /\ rangeLen' = [rangeLen EXCEPT ![c] = Len(hooks)]
    /\ iter' = [iter EXCEPT ![c] = 1]
    /\ UNCHANGED <<newVars, runVars, sdVars, ctxBound, atCall, hooks, numStarted, appErr, crashed, ncalls, cur, ctxDone, kind,
                   tmp, inHook, startErr, errs, chan, result, startLog, stopLog>>

\* ----------------------------------------------------------- App.start
\* if app.err != nil { return app.err }; else app.lifecycle.Start(ctx)
AppStartEnter(c) ==
    /\ ~crashed
    /\ pc[c] = "app_start"
    /\ IF appErr # Nil
         THEN /\ Send(c, appErr)
              /\ UNCHANGED <<rangeLen, iter>>
         ELSE /\ pc' = [pc EXCEPT ![c] = "start_loop"]
              /\ rangeLen' = [rangeLen EXCEPT ![c] = Len(hooks)]
              /\ iter' = [iter EXCEPT ![c] = 1]
              /\ UNCHANGED chan
    /\ UNCHANGED <<newVars, runVars, sdVars, ctxBound, atCall, hooks, numStarted, appErr, crashed, ncalls, cur, ctxDone, kind,
                   tmp, inHook, startErr, errs, result, startLog, stopLog>>

\* --------------------------------------------------------- Lifecycle.Start
\* variant: a hook without OnStart is passed over without l.numStarted++
Mutant_StartIterSkipsNil(c) ==
    /\ ~crashed
    /\ pc[c] = "start_loop"
    /\ IF iter[c] > rangeLen[c]
         THEN /\ Send(c, Nil)
              /\ UNCHANGED <<iter, inHook, startLog>>
         ELSE IF hooks[iter[c]].onStart = "nil"
           THEN /\ iter' = [iter EXCEPT ![c] = @ + 1]
                /\ UNCHANGED <<pc, chan, inHook, startLog>>
           ELSE /\ pc' = [pc EXCEPT ![c] = "in_start"]
                /\ inHook' = [inHook EXCEPT ![c] = iter[c]]
                /\ startLog' = [startLog EXCEPT ![c] = Append(@, iter[c])]
                /\ UNCHANGED <<iter, chan>>
    /\ UNCHANGED <<newVars, runVars, sdVars, ctxBound, atCall, hooks, numStarted, appErr, crashed, ncalls, cur, ctxDone, kind,
                   rangeLen, tmp, startErr, errs, result, stopLog>>

\* one turn of "for _, hook := range l.hooks" up to the call of hook.OnStart;
\* a hook without OnStart goes straight to l.numStarted++, which reads here
LifecycleStartIter(c) ==
    /\ ~crashed
    /\ pc[c] = "start_loop"
    /\ IF iter[c] > rangeLen[c]
         THEN \* return nil; App.start returns nil
              /\ Send(c, Nil)
              /\ UNCHANGED <<tmp, inHook, startLog>>
         ELSE IF hooks[iter[c]].onStart = "nil"
           THEN /\ tmp' = [tmp EXCEPT ![c] = numStarted]
                /\ pc' = [pc EXCEPT ![c] = "start_inc"]
                /\ UNCHANGED <<chan, inHook, startLog>>
           ELSE /\ pc' = [pc EXCEPT ![c] = "in_start"]
                /\ inHook' = [inHook EXCEPT ![c] = iter[c]]
                /\ startLog' = [startLog EXCEPT ![c] = Append(@, iter[c])]
                /\ UNCHANGED <<tmp, chan>>
    /\ UNCHANGED <<newVars, runVars, sdVars, ctxBound, atCall, hooks, numStarted, appErr, crashed, ncalls, cur, ctxDone, kind,
                   rangeLen, iter, startErr, errs, result, stopLog>>

\* variant: App.start returns the start error without rolling back
Mutant_StartReturnNoRollback(c) ==
    /\ ~crashed
    /\ pc[c] = "in_start"
    /\ IF hooks[inHook[c]].onStart = "err"
         THEN /\ startErr' = [startErr EXCEPT ![c] = <<ErrStart(inHook[c])>>]
              /\ Send(c, <<ErrStart(inHook[c])>>)
              /\ UNCHANGED tmp
         ELSE /\ tmp' = [tmp EXCEPT ![c] = numStarted]
              /\ pc' = [pc EXCEPT ![c] = "start_inc"]
              /\ UNCHANGED <<startErr, chan>>
    /\ inHook' = [inHook EXCEPT ![c] = 0]
    /\ UNCHANGED <<newVars, runVars, sdVars, ctxBound, atCall, hooks, numStarted, appErr, crashed, ncalls, cur, ctxDone, kind,
                   rangeLen, iter, errs, result, startLog, stopLog>>

\* variant: Lifecycle.Start goes on to the next hook when OnStart fails
Mutant_StartReturnIgnoresErr(c) ==
    /\ ~crashed
    /\ pc[c] = "in_start"
    /\ tmp' = [tmp EXCEPT ![c] = numStarted]
    /\ pc' = [pc EXCEPT ![c] = "start_inc"]
    /\ inHook' = [inHook EXCEPT ![c] = 0]
    /\ UNCHANGED <<newVars, runVars, sdVars, ctxBound, atCall, hooks, numStarted, appErr, crashed, ncalls, cur, ctxDone, kind,
                   rangeLen, iter, startErr, errs, chan, result, startLog, stopLog>>

\* variant: App.start hands the start error to the error handlers
Mutant_StartReturnHandles(c) ==
    /\ ~crashed
    /\ pc[c] = "in_start"
    /\ IF hooks[inHook[c]].onStart = "err"
         THEN /\ startErr' = [startErr EXCEPT ![c] = <<ErrStart(inHook[c])>>]
              /\ pc' = [pc EXCEPT ![c] = "stop_loop"]
              /\ handled' = handled \o [k \in 1..Len(errorHooks) |->
                                          <<errorHooks[k], <<ErrStart(inHook[c])>>>>]
              /\ UNCHANGED tmp
         ELSE /\ tmp' = [tmp EXCEPT ![c] = numStarted]
              /\ pc' = [pc EXCEPT ![c] = "start_inc"]
              /\ UNCHANGED <<startErr, handled>>
    /\ inHook' = [inHook EXCEPT ![c] = 0]
    /\ UNCHANGED <<opts, npc, ni, provides, invokes, errorHooks, registered, executed, runVars, sdVars, ctxBound, atCall, hooks, numStarted, appErr, crashed, ncalls, cur, ctxDone, kind,
                   rangeLen, iter, errs, chan, result, startLog, stopLog>>

\* hook.OnStart(ctx) returns: an error ends the pass (App.start then rolls
\* back with app.lifecycle.Stop(ctx)), nil goes on to l.numStarted++
LifecycleStartReturn(c) ==
    /\ ~crashed
    /\ pc[c] = "in_start"
    /\ IF hooks[inHook[c]].onStart = "err"
         THEN /\ startErr' = [startErr EXCEPT ![c] = <<ErrStart(inHook[c])>>]
              /\ pc' = [pc EXCEPT ![c] = "stop_loop"]
              /\ UNCHANGED tmp
         ELSE /\ tmp' = [tmp EXCEPT ![c] = numStarted]
              /\ pc' = [pc EXCEPT ![c] = "start_inc"]
              /\ UNCHANGED startErr
    /\ inHook' = [inHook EXCEPT ![c] = 0]
    /\ UNCHANGED <<newVars, runVars, sdVars, ctxBound, atCall, hooks, numStarted, appErr, crashed, ncalls, cur, ctxDone, kind,
                   rangeLen, iter, errs, chan, result, startLog, stopLog>>

\* l.numStarted++ writes back; next turn of the range loop
LifecycleStartInc(c) ==
    /\ ~crashed
    /\ pc[c] = "start_inc"
    /\ numStarted' = tmp[c] + 1
    /\ tmp' = [tmp EXCEPT ![c] = 0]
    /\ iter' = [iter EXCEPT ![c] = @ + 1]
    /\ pc' = [pc EXCEPT ![c] = "start_loop"]
    /\ UNCHANGED <<newVars, runVars, sdVars, ctxBound, atCall, hooks, appErr, crashed, ncalls, cur, ctxDone, kind, rangeLen,
                   inHook, startErr, errs, chan, result, startLog, stopLog>>

\* ---------------------------------------------------------- Lifecycle.Stop
\* variant: App.start returns err alone and drops stopErr
Mutant_StopResultDropsRollback(c) ==
    IF kind[c] = "start" THEN startErr[c] ELSE Combine(errs[c])

\* variant: App.start returns stopErr where it should return err
Mutant_StopResultReturnsStopErr(c) ==
    IF kind[c] = "start" THEN Combine(errs[c]) ELSE Combine(errs[c])

\* variant: Lifecycle.Stop reports its first error only
Mutant_StopResultFirstOnly(c) ==
    IF kind[c] = "start"
      THEN IF errs[c] # <<>> THEN MultiAppend(startErr[c], <<errs[c][1]>>) ELSE startErr[c]
      ELSE IF errs[c] # <<>> THEN <<errs[c][1]>> ELSE Nil

\* what the function running Lifecycle.Stop returns through the channel:
\* App.Stop returns Stop's error, App.start combines it with the start error
StopResult(c) ==
    IF kind[c] = "start"
      THEN IF Combine(errs[c]) # Nil
             THEN MultiAppend(startErr[c], Combine(errs[c]))
             ELSE startErr[c]
      ELSE Combine(errs[c])

\* the condition of "for ; l.numStarted > 0; l.numStarted--"
LifecycleStopCond(c) ==
    /\ ~crashed
    /\ pc[c] = "stop_loop"
    /\ IF numStarted > 0
         THEN /\ pc' = [pc EXCEPT ![c] = "stop_body"]
              /\ UNCHANGED chan
         ELSE Send(c, StopResult(c))
    /\ UNCHANGED <<newVars, runVars, sdVars, ctxBound, atCall, hooks, numStarted, appErr, crashed, ncalls, cur, ctxDone, kind,
                   rangeLen, iter, tmp, inHook, startErr, errs, result,
                   startLog, stopLog>>

\* variant: Lifecycle.Stop walks the started hooks front to back
Mutant_StopBodyForward(c) ==
    /\ ~crashed
    /\ pc[c] = "stop_body"
    /\ LET j == atCall[c] + 1 - numStarted IN
       IF j < 1 \/ j > Len(hooks)
         THEN /\ crashed' = TRUE
              /\ UNCHANGED <<pc, tmp, inHook, stopLog>>
         ELSE IF hooks[j].onStop = "nil"
           THEN /\ pc' = [pc EXCEPT ![c] = "stop_post"]
                /\ UNCHANGED <<crashed, tmp, inHook, stopLog>>
           ELSE /\ pc' = [pc EXCEPT ![c] = "in_stop"]
                /\ inHook' = [inHook EXCEPT ![c] = j]
                /\ stopLog' = [stopLog EXCEPT ![c] = Append(@, j)]
                /\ UNCHANGED <<crashed, tmp>>
    /\ UNCHANGED <<newVars, runVars, sdVars, ctxBound, atCall, hooks, numStarted, appErr, ncalls, cur, ctxDone, kind, rangeLen,
                   iter, startErr, errs, chan, result, startLog>>

\* hook := l.hooks[l.numStarted-1], up to the call of hook.OnStop; a hook
\* without OnStop continues to the post statement l.numStarted--
LifecycleStopBody(c) ==
    /\ ~crashed
    /\ pc[c] = "stop_body"
    /\ IF numStarted < 1 \/ numStarted > Len(hooks)
         THEN \* index out of range: runtime panic
              /\ crashed' = TRUE
              /\ UNCHANGED <<pc, tmp, inHook, stopLog>>
         ELSE IF hooks[numStarted].onStop = "nil"
           THEN /\ pc' = [pc EXCEPT ![c] = "stop_post"]
                /\ UNCHANGED <<crashed, tmp, inHook, stopLog>>
           ELSE /\ pc' = [pc EXCEPT ![c] = "in_stop"]
                /\ inHook' = [inHook EXCEPT ![c] = numStarted]
                /\ stopLog' = [stopLog EXCEPT ![c] = Append(@, numStarted)]
                /\ UNCHANGED <<crashed, tmp>>
    /\ UNCHANGED <<newVars, runVars, sdVars, ctxBound, atCall, hooks, numStarted, appErr, ncalls, cur, ctxDone, kind, rangeLen,
                   iter, startErr, errs, chan, result, startLog>>

\* variant: Lifecycle.Stop returns at the first failing OnStop
Mutant_StopReturnFirstError(c) ==
    /\ ~crashed
    /\ pc[c] = "in_stop"
    /\ IF hooks[inHook[c]].onStop = "err"
         THEN /\ errs' = [errs EXCEPT ![c] = Append(@, ErrStop(inHook[c]))]
              /\ chan' = [chan EXCEPT ![c] =
                            <<IF kind[c] = "start"
                                THEN MultiAppend(startErr[c], <<ErrStop(inHook[c])>>)
                                ELSE <<ErrStop(inHook[c])>>>>]
              /\ pc' = [pc EXCEPT ![c] = "done"]
              /\ UNCHANGED tmp
         ELSE /\ tmp' = [tmp EXCEPT ![c] = numStarted]
              /\ pc' = [pc EXCEPT ![c] = "stop_dec"]
              /\ UNCHANGED <<errs, chan>>
    /\ inHook' = [inHook EXCEPT ![c] = 0]
    /\ UNCHANGED <<newVars, runVars, sdVars, ctxBound, atCall, hooks, numStarted, appErr, crashed, ncalls, cur, ctxDone, kind,
                   rangeLen, iter, startErr, result, startLog, stopLog>>

\* hook.OnStop(ctx) returns: an error is collected; on to l.numStarted--
LifecycleStopReturn(c) ==
    /\ ~crashed
    /\ pc[c] = "in_stop"
    /\ errs' = [errs EXCEPT ![c] =
                  IF hooks[inHook[c]].onStop = "err"
                    THEN Append(@, ErrStop(inHook[c])) ELSE @]
    /\ tmp' = [tmp EXCEPT ![c] = numStarted]
    /\ pc' = [pc EXCEPT ![c] = "stop_dec"]
    /\ inHook' = [inHook EXCEPT ![c] = 0]
    /\ UNCHANGED <<newVars, runVars, sdVars, ctxBound, atCall, hooks, numStarted, appErr, crashed, ncalls, cur, ctxDone, kind,
                   rangeLen, iter, startErr, chan, result, startLog, stopLog>>

\* after "continue": l.numStarted-- reads l.numStarted
LifecycleStopPost(c) ==
    /\ ~crashed
    /\ pc[c] = "stop_post"
    /\ tmp' = [tmp EXCEPT ![c] = numStarted]
    /\ pc' = [pc EXCEPT ![c] = "stop_dec"]
    /\ UNCHANGED <<newVars, runVars, sdVars, ctxBound, atCall, hooks, numStarted, appErr, crashed, ncalls, cur, ctxDone, kind,
                   rangeLen, iter, inHook, startErr, errs, chan, result, startLog, stopLog>>

\* l.numStarted-- writes back; back to the loop condition
LifecycleStopDec(c) ==
    /\ ~crashed
    /\ pc[c] = "stop_dec"
    /\ numStarted' = tmp[c] - 1
    /\ tmp' = [tmp EXCEPT ![c] = 0]
    /\ pc' = [pc EXCEPT ![c] = "stop_loop"]
    /\ UNCHANGED <<newVars, runVars, sdVars, ctxBound, atCall, hooks, appErr, crashed, ncalls, cur, ctxDone, kind, rangeLen,
                   iter, inHook, startErr, errs, chan, result, startLog,
                   stopLog>>

\* ================================================== shutdown broadcaster
SIGINT == "SIGINT"
SIGTERM == "SIGTERM"

\* fmt.Errorf("failed to send %v signal to %v out of %v channels", ...)
ErrBroadcast(sig, n, total) ==
    [kind |-> "broadcast", signal |-> sig, unsent |-> n, total |-> total]

\* broadcasts that hold app.donesMu.RLock()
Reading == {b \in Broadcasts : bpc[b] = "loop"}

\* another actor sent to or received from a channel: running broadcasts but b
\* no longer run undisturbed
Disturb(b) == [x \in Broadcasts |-> IF x \in Reading \ {b} THEN FALSE ELSE alone[x]]

\* the signals the channels are registered for with signal.Notify
Signals == {SIGINT, SIGTERM}

\* s without its k-th element
Without(s, k) == SubSeq(s, 1, k - 1) \o SubSeq(s, k + 1, Len(s))

\* variant: a channel made after a broadcast starts out holding its signal
Mutant_DoneMakeSeesEarlier ==
    /\ Len(fresh) < MaxFresh
    /\ Len(dones) + Len(fresh) < MaxSlots
    /\ fresh' = Append(fresh, IF \E b \in Broadcasts : bpc[b] = "done"
                                 THEN <<SIGTERM>> ELSE <<>>)
    /\ UNCHANGED <<newVars, runVars, lcVars, dones, bpc, bi, unsent, bresult, pre, alone, tried>>

\* App.Done, up to the lock: c := make(chan os.Signal, 1);
\* signal.Notify(c, syscall.SIGINT, syscall.SIGTERM)
DoneMake ==
    /\ Len(fresh) < MaxFresh
    /\ Len(dones) + Len(fresh) < MaxSlots
    /\ fresh' = Append(fresh, <<>>)
    /\ UNCHANGED <<newVars, runVars, lcVars, dones, bpc, bi, unsent, bresult, pre, alone, tried>>

\* variant: Done appends to app.dones without taking donesMu
Mutant_DoneAppendNoLock(k) ==
    /\ k \in 1..Len(fresh)
    /\ dones' = Append(dones, fresh[k])
    /\ fresh' = Without(fresh, k)
    /\ UNCHANGED <<newVars, runVars, lcVars, bpc, bi, unsent, bresult, pre, alone, tried>>

\* App.Done, the rest: app.donesMu.Lock(); app.dones = append(app.dones, c);
\* app.donesMu.Unlock(); return c. The channel joins with what it holds
DoneAppend(k) ==
    /\ k \in 1..Len(fresh)
    /\ Reading = {}
    /\ dones' = Append(dones, fresh[k])
    /\ fresh' = Without(fresh, k)
    /\ UNCHANGED <<newVars, runVars, lcVars, bpc, bi, unsent, bresult, pre, alone, tried>>

\* shutdowner.Shutdown -> app.broadcastSignal(SIGTERM): app.donesMu.RLock()
BroadcastLock(b) ==
    /\ bpc[b] = "idle"
    /\ bpc' = [bpc EXCEPT ![b] = "loop"]
    /\ bi' = [bi EXCEPT ![b] = 1]
    /\ unsent' = [unsent EXCEPT ![b] = 0]
    /\ pre' = [pre EXCEPT ![b] = dones]
    /\ alone' = [alone EXCEPT ![b] = TRUE]
    /\ tried' = [tried EXCEPT ![b] = <<>>]
    /\ UNCHANGED <<newVars, fresh, runVars, lcVars, dones, bresult>>

\* variant: the broadcast gives up at the first channel that is full
Mutant_BroadcastSendAborts(b) ==
    /\ bpc[b] = "loop"
    /\ bi[b] <= Len(dones)
    /\ IF Len(dones[bi[b]]) < 1
         THEN /\ dones' = [dones EXCEPT ![bi[b]] = Append(@, SIGTERM)]
              /\ bi' = [bi EXCEPT ![b] = @ + 1]
              /\ UNCHANGED unsent
         ELSE /\ unsent' = [unsent EXCEPT ![b] = @ + 1]
              /\ bi' = [bi EXCEPT ![b] = Len(dones) + 1]
              /\ UNCHANGED dones
    /\ tried' = [tried EXCEPT ![b] = Append(@, Len(dones[bi[b]]) < 1)]
    /\ alone' = Disturb(b)
    /\ UNCHANGED <<newVars, fresh, runVars, lcVars, bpc, bresult, pre>>

\* variant: a plain send, which waits for room in the channel
Mutant_BroadcastSendBlocks(b) ==
    /\ bpc[b] = "loop"
    /\ bi[b] <= Len(dones)
    /\ Len(dones[bi[b]]) < 1
    /\ dones' = [dones EXCEPT ![bi[b]] = Append(@, SIGTERM)]
    /\ bi' = [bi EXCEPT ![b] = @ + 1]
    /\ tried' = [tried EXCEPT ![b] = Append(@, TRUE)]
    /\ alone' = Disturb(b)
    /\ UNCHANGED <<newVars, fresh, runVars, lcVars, bpc, bresult, pre, unsent>>

\* variant: the channels are made with room for two signals
Mutant_BroadcastSendRoomForTwo(b) ==
    /\ bpc[b] = "loop"
    /\ bi[b] <= Len(dones)
    /\ IF Len(dones[bi[b]]) < 2
         THEN /\ dones' = [dones EXCEPT ![bi[b]] = Append(@, SIGTERM)]
              /\ UNCHANGED unsent
         ELSE /\ unsent' = [unsent EXCEPT ![b] = @ + 1]
              /\ UNCHANGED dones
    /\ bi' = [bi EXCEPT ![b] = @ + 1]
    /\ tried' = [tried EXCEPT ![b] = Append(@, Len(dones[bi[b]]) < 2)]
    /\ alone' = Disturb(b)
    /\ UNCHANGED <<newVars, fresh, runVars, lcVars, bpc, bresult, pre>>

\* one turn of "for _, done := range app.dones": select send, default unsent++
BroadcastSend(b) ==
    /\ bpc[b] = "loop"
    /\ bi[b] <= Len(dones)
    /\ IF Len(dones[bi[b]]) < 1
         THEN /\ dones' = [dones EXCEPT ![bi[b]] = Append(@, SIGTERM)]
              /\ UNCHANGED unsent
         ELSE /\ unsent' = [unsent EXCEPT ![b] = @ + 1]
              /\ UNCHANGED dones
    /\ bi' = [bi EXCEPT ![b] = @ + 1]
    /\ tried' = [tried EXCEPT ![b] = Append(@, Len(dones[bi[b]]) < 1)]
    /\ alone' = Disturb(b)
    /\ UNCHANGED <<newVars, fresh, runVars, lcVars, bpc, bresult, pre>>

\* variant: the error reports the channels that took the signal
Mutant_BroadcastResultCountsSent(b) ==
    IF unsent[b] # 0
      THEN <<ErrBroadcast(SIGTERM, Len(dones) - unsent[b], Len(dones))>>
      ELSE Nil

\* if unsent != 0 { return fmt.Errorf(...) }; return nil
BroadcastResult(b) ==
    IF unsent[b] # 0
      THEN <<ErrBroadcast(SIGTERM, unsent[b], Len(dones))>>
      ELSE Nil

\* after the loop: the error or nil, and the deferred RUnlock
BroadcastReturn(b) ==
    /\ bpc[b] = "loop"
    /\ bi[b] > Len(dones)
    /\ bresult' = [bresult EXCEPT ![b] = BroadcastResult(b)]
    /\ bpc' = [bpc EXCEPT ![b] = "done"]
    /\ bi' = [bi EXCEPT ![b] = 0]
    /\ unsent' = [unsent EXCEPT ![b] = 0]
    /\ pre' = [pre EXCEPT ![b] = <<>>]
    /\ alone' = [alone EXCEPT ![b] = TRUE]
    /\ tried' = [tried EXCEPT ![b] = <<>>]
    /\ UNCHANGED <<newVars, fresh, runVars, lcVars, dones>>

\* the holder of a channel returned by Done receives from it
Receive(i) ==
    /\ i \in 1..Len(dones)
    /\ dones[i] # <<>>
    /\ dones' = [dones EXCEPT ![i] = Tail(@)]
    /\ alone' = Disturb(0)
    /\ UNCHANGED <<newVars, fresh, runVars, lcVars, bpc, bi, unsent, bresult, pre, tried>>

\* signal.Notify(c, SIGINT, SIGTERM): the runtime delivers an incoming signal
\* to a registered channel without blocking, dropping it if the channel is full
Notify(i) ==
    /\ i \in 1..Len(dones)
    /\ Len(dones[i]) < 1
    /\ \E sig \in Signals : dones' = [dones EXCEPT ![i] = Append(@, sig)]
    /\ alone' = Disturb(0)
    /\ UNCHANGED <<newVars, fresh, runVars, lcVars, bpc, bi, unsent, bresult, pre, tried>>

\* the same for a channel that Done has not appended to app.dones yet
NotifyFresh(k) ==
    /\ k \in 1..Len(fresh)
    /\ Len(fresh[k]) < 1
    /\ \E sig \in Signals : fresh' = [fresh EXCEPT ![k] = Append(@, sig)]
    /\ UNCHANGED <<newVars, runVars, lcVars, dones, bpc, bi, unsent, bresult, pre, alone, tried>>

NextShutdown ==
    \/ DoneMake
    \/ \E k \in 1..MaxFresh : DoneAppend(k)
    \/ \E k \in 1..MaxFresh : NotifyFresh(k)
    \/ \E b \in Broadcasts : BroadcastLock(b)
    \/ \E b \in Broadcasts : BroadcastSend(b)
    \/ \E b \in Broadcasts : BroadcastReturn(b)
    \/ \E i \in 1..MaxSlots : Receive(i)
    \/ \E i \in 1..MaxSlots : Notify(i)

InitShutdown == Init /\ appErr = Nil

SpecShutdown == InitShutdown /\ [][NextShutdown]_vars

\* the broadcaster with listeners that never receive
NextNoConsume ==
    \/ DoneMake
    \/ \E k \in 1..MaxFresh : DoneAppend(k)
    \/ \E k \in 1..MaxFresh : NotifyFresh(k)
    \/ \E b \in Broadcasts : BroadcastLock(b)
    \/ \E b \in Broadcasts : BroadcastSend(b)
    \/ \E b \in Broadcasts : BroadcastReturn(b)
    \/ \E i \in 1..MaxSlots : Notify(i)

\* a broadcast is a running function call: the scheduler keeps running it;
\* nothing makes a signal arrive or Done or Shutdown be called
FairShutdown ==
    /\ InitShutdown
    /\ [][NextNoConsume]_vars
    /\ \A b \in Broadcasts : WF_vars(BroadcastSend(b) \/ BroadcastReturn(b))

\* ============================================================ App.Run
\* Logger.Fatalf: the failure is surfaced and the process does not proceed
Fatalf == crashed' = TRUE

HookLists == UNION {[1..n -> Hook] : n \in 0..MaxHooks}

\* an App built without error by New(..., ErrorHook(1, 2), ...), whose
\* invocations registered the hooks
InitRun ==
    /\ InitCalls
    /\ hooks \in HookLists
    /\ appErr = Nil
    /\ opts = <<>>
    /\ npc = "done"
    /\ ni = 0
    /\ provides = <<>>
    /\ invokes = <<>>
    /\ errorHooks = <<1, 2>>
    /\ handled = <<>>
    /\ registered = <<>>
    /\ executed = <<>>
    /\ runPc = "idle"
    /\ runSlot = 0

\* Run: app.Done(), up to the lock: make(chan os.Signal, 1), signal.Notify
RunDoneMake ==
    /\ ~crashed
    /\ runPc = "idle"
    /\ Len(fresh) < MaxFresh
    /\ Len(dones) + Len(fresh) < MaxSlots
    /\ fresh' = Append(fresh, <<>>)
    /\ runPc' = "registering"
    /\ UNCHANGED <<newVars, lcVars, dones, bpc, bi, unsent, bresult, pre, alone, tried, runSlot>>

\* Run: app.Done(), the rest, and app.run(done). Nothing else calls Done
\* beside Run here, so the channel Done made is the one in fresh
RunDone ==
    /\ ~crashed
    /\ runPc = "registering"
    /\ Reading = {}
    /\ dones' = Append(dones, fresh[Len(fresh)])
    /\ fresh' = Without(fresh, Len(fresh))
    /\ runSlot' = Len(dones) + 1
    /\ runPc' = "start"
    /\ UNCHANGED <<newVars, lcVars, bpc, bi, unsent, bresult, pre, alone, tried>>

\* startCtx := context.WithTimeout(context.Background(), app.StartTimeout());
\* app.Start(startCtx)
RunStart ==
    /\ runPc = "start"
    /\ Spawn("start", "app_start", TRUE)
    /\ runPc' = "starting"
    /\ UNCHANGED runSlot

\* variant: run goes on to wait for the signal whatever Start returned
Mutant_RunStartReturnIgnoresErr ==
    /\ ~crashed
    /\ runPc = "starting"
    /\ cur = 0
    /\ runPc' = "waiting"
    /\ UNCHANGED <<newVars, sdVars, lcVars, runSlot>>

\* variant: run empties its channel when Start has returned
Mutant_RunStartReturnDrains ==
    /\ ~crashed
    /\ runPc = "starting"
    /\ cur = 0
    /\ IF result[ncalls][1] # Nil
         THEN /\ Fatalf
              /\ runPc' = "fatal"
              /\ UNCHANGED dones
         ELSE /\ runPc' = "waiting"
              /\ dones' = [dones EXCEPT ![runSlot] = <<>>]
              /\ UNCHANGED crashed
    /\ UNCHANGED <<newVars, fresh, bpc, bi, unsent, bresult, pre, alone, tried, lcLive, runSlot>>

\* if err := app.Start(startCtx); err != nil { app.logger.Fatalf(...) }
RunStartReturn ==
    /\ ~crashed
    /\ runPc = "starting"
    /\ cur = 0
    /\ IF result[ncalls][1] # Nil
         THEN /\ Fatalf
              /\ runPc' = "fatal"
         ELSE /\ runPc' = "waiting"
              /\ UNCHANGED crashed
    /\ UNCHANGED <<newVars, sdVars, lcLive, runSlot>>

\* variant: run returns once the signal is there, without calling Stop
Mutant_RunReceiveNoStop ==
    /\ ~crashed
    /\ runPc = "waiting"
    /\ dones[runSlot] # <<>>
    /\ dones' = [dones EXCEPT ![runSlot] = Tail(@)]
    /\ alone' = Disturb(0)
    /\ runPc' = "returned"
    /\ UNCHANGED <<newVars, fresh, lcVars, bpc, bi, unsent, bresult, pre, tried, runSlot>>

\* variant: a receive that does not wait (select with a default case)
Mutant_RunReceiveNoWait ==
    /\ ~crashed
    /\ runPc = "waiting"
    /\ dones' = [dones EXCEPT ![runSlot] = IF @ = <<>> THEN @ ELSE Tail(@)]
    /\ alone' = Disturb(0)
    /\ runPc' = "stop"
    /\ UNCHANGED <<newVars, fresh, lcVars, bpc, bi, unsent, bresult, pre, tried, runSlot>>

\* app.logger.PrintSignal(<-done)
RunReceive ==
    /\ ~crashed
    /\ runPc = "waiting"
    /\ dones[runSlot] # <<>>
    /\ dones' = [dones EXCEPT ![runSlot] = Tail(@)]
    /\ alone' = Disturb(0)
    /\ runPc' = "stop"
    /\ UNCHANGED <<newVars, fresh, lcVars, bpc, bi, unsent, bresult, pre, tried, runSlot>>

\* stopCtx := context.WithTimeout(context.Background(), app.StopTimeout());
\* app.Stop(stopCtx)
RunStop ==
    /\ runPc = "stop"
    /\ Spawn("stop", "stop_loop", TRUE)
    /\ runPc' = "stopping"
    /\ UNCHANGED runSlot

\* if err := app.Stop(stopCtx); err != nil { app.logger.Fatalf(...) }
RunStopReturn ==
    /\ ~crashed
    /\ runPc = "stopping"
    /\ cur = 0
    /\ IF result[ncalls][1] # Nil
         THEN /\ Fatalf
              /\ runPc' = "fatal"
         ELSE /\ runPc' = "returned"
              /\ UNCHANGED crashed
    /\ UNCHANGED <<newVars, sdVars, lcLive, runSlot>>

\* what the process of Run does by itself: run, the select of withTimeout, the
\* goroutine of the call
RunSteps ==
    \/ RunDoneMake
    \/ RunDone
    \/ RunStart
    \/ RunStartReturn
    \/ RunReceive
    \/ RunStop
    \/ RunStopReturn
    \/ SelectCtxDone
    \/ SelectResult
    \/ \E c \in Calls : AppStartEnter(c)
    \/ \E c \in Calls : LifecycleStartIter(c)
    \/ \E c \in Calls : LifecycleStartReturn(c)
    \/ \E c \in Calls : LifecycleStartInc(c)
    \/ \E c \in Calls : LifecycleStopCond(c)
    \/ \E c \in Calls : LifecycleStopBody(c)
    \/ \E c \in Calls : LifecycleStopPost(c)
    \/ \E c \in Calls : LifecycleStopReturn(c)
    \/ \E c \in Calls : LifecycleStopDec(c)

\* one Shutdown() called by some goroutine of the process
ShutdownSteps ==
    \/ ~crashed /\ BroadcastLock(1)
    \/ ~crashed /\ BroadcastSend(1)
    \/ ~crashed /\ BroadcastReturn(1)

NextRun ==
    \/ RunSteps
    \/ ShutdownSteps
    \/ CtxExpire
    \/ \E i \in 1..MaxSlots : ~crashed /\ Notify(i)
    \/ \E k \in 1..MaxFresh : ~crashed /\ NotifyFresh(k)

SpecRun == InitRun /\ [][NextRun]_vars

\* the scheduler keeps running what can run; a deadline may pass or not, a
\* signal arrive or not, Shutdown be called or not
FairRun ==
    /\ SpecRun
    /\ WF_vars(RunSteps)
    /\ WF_vars(~crashed /\ (BroadcastSend(1) \/ BroadcastReturn(1)))

\* ============================================================ fx.New
\* the errors of construction: of the k-th error passed to an Error option, of
\* registering the i-th constructor, of running the i-th invocation
ErrOption(k) == [kind |-> "option", hook |-> k]
ErrProvide(i) == [kind |-> "provide", hook |-> i]
ErrInvoke(i) == [kind |-> "invoke", hook |-> i]

\* errorWithGraph{graph, err}: err with the dependency graph attached
ErrorWithGraph(err) == <<[kind |-> "graph", hook |-> err[1].hook]>>

\* the error of registering the constructors of fx itself
ErrBuiltin == [kind |-> "provide", hook |-> 0]

\* the options: Error(errs...), Provide(constructor), Invoke(function),
\* ErrorHook(handler). A constructor is accepted by the container ("ok"),
\* refused ("bad"), or accepted and of a type fx provides itself (Lifecycle,
\* Shutdowner, DotGraph: "own"), which makes the container refuse the
\* constructor of fx; an invocation succeeds, fails, or fails with an error
\* dig can visualize
Option ==
    [op : {"Error"}, arg : {<<>>, <<1>>, <<2>>}]
      \cup [op : {"Provide"}, arg : {"ok", "bad", "own"}]
      \cup [op : {"Invoke"}, arg : {"ok", "err", "graph"}]
      \cup [op : {"ErrorHook"}, arg : {1, 2}]

OptionLists == UNION {[1..n -> Option] : n \in 0..MaxOpts}

\* New(opts...) is called
InitNew ==
    /\ InitApp
    /\ appErr = Nil
    /\ opts \in OptionLists
    /\ npc = "opts"
    /\ ni = 1
    /\ provides = <<>>
    /\ invokes = <<>>
    /\ errorHooks = <<>>
    /\ handled = <<>>
    /\ registered = <<>>
    /\ executed = <<>>
    /\ runPc = "idle"
    /\ runSlot = 0

\* for _, opt := range opts { opt.apply(app) }
ApplyOption ==
    /\ npc = "opts"
    /\ IF ni > Len(opts)
         THEN /\ npc' = "provides"
              /\ ni' = 1
              /\ UNCHANGED <<appErr, provides, invokes, errorHooks>>
         ELSE /\ ni' = ni + 1
              /\ UNCHANGED npc
              /\ LET o == opts[ni] IN
                 /\ appErr' = IF o.op = "Error"
                                THEN MultiAppend(appErr,
                                       Combine([k \in 1..Len(o.arg) |-> ErrOption(o.arg[k])]))
                                ELSE appErr
                 /\ provides' = IF o.op = "Provide" THEN Append(provides, o.arg) ELSE provides
                 /\ invokes' = IF o.op = "Invoke" THEN Append(invokes, o.arg) ELSE invokes
                 /\ errorHooks' = IF o.op = "ErrorHook"
                                    THEN Append(errorHooks, o.arg) ELSE errorHooks
    /\ UNCHANGED <<opts, handled, registered, executed, runVars, sdVars, lcRest>>

\* the container holds a constructor of one of the types fx provides itself
OwnTaken == \E k \in 1..Len(registered) : provides[registered[k]] = "own"

\* variant: app.provide without the "if app.err != nil { return }" guard
Mutant_ProvideNoGuard ==
    /\ npc = "provides"
    /\ IF ni > Len(provides)
         THEN LET err == IF OwnTaken THEN <<ErrBuiltin>> ELSE appErr
              IN /\ appErr' = err
                 /\ npc' = IF err # Nil THEN "done" ELSE "invokes"
                 /\ ni' = 1
                 /\ UNCHANGED registered
         ELSE /\ ni' = ni + 1
              /\ UNCHANGED npc
              /\ appErr' = IF provides[ni] = "bad"
                             THEN <<ErrProvide(ni)>> ELSE appErr
              /\ registered' = IF provides[ni] # "bad"
                                 THEN Append(registered, ni) ELSE registered
    /\ UNCHANGED <<opts, provides, invokes, errorHooks, handled, executed, runVars, sdVars, lcRest>>

\* for _, p := range app.provides { app.provide(p) }; then the three provides
\* of fx itself, the first of which fails if the container already holds a
\* constructor of its type, and "if app.err != nil { return app }"
ProvideStep ==
    /\ npc = "provides"
    /\ IF ni > Len(provides)
         THEN LET err == IF appErr = Nil /\ OwnTaken THEN <<ErrBuiltin>> ELSE appErr
              IN /\ appErr' = err
                 /\ npc' = IF err # Nil THEN "done" ELSE "invokes"
                 /\ ni' = 1
                 /\ UNCHANGED registered
         ELSE /\ ni' = ni + 1
              /\ UNCHANGED npc
              /\ appErr' = IF appErr = Nil /\ provides[ni] = "bad"
                             THEN <<ErrProvide(ni)>> ELSE appErr
              /\ registered' = IF appErr = Nil /\ provides[ni] # "bad"
                                 THEN Append(registered, ni) ELSE registered
    /\ UNCHANGED <<opts, provides, invokes, errorHooks, handled, executed, runVars, sdVars, lcRest>>

\* variant: the loop of executeInvokes goes on after a failure (no break)
Mutant_InvokeStepNoBreak ==
    /\ npc = "invokes"
    /\ IF ni > Len(invokes)
         THEN /\ npc' = IF appErr = Nil THEN "done" ELSE "handle"
              /\ ni' = IF appErr = Nil THEN 0 ELSE 1
              /\ UNCHANGED <<appErr, executed>>
         ELSE /\ executed' = Append(executed, ni)
              /\ ni' = ni + 1
              /\ appErr' = IF invokes[ni] = "ok" THEN appErr ELSE <<ErrInvoke(ni)>>
              /\ UNCHANGED npc
    /\ UNCHANGED <<opts, provides, invokes, errorHooks, handled, registered, runVars, sdVars, lcRest>>

\* app.executeInvokes: the invocations in order, up to the first that fails;
\* its error becomes app.err
InvokeStep ==
    /\ npc = "invokes"
    /\ IF ni > Len(invokes)
         THEN /\ npc' = "done"
              /\ ni' = 0
              /\ UNCHANGED <<appErr, executed>>
         ELSE /\ executed' = Append(executed, ni)
              /\ IF invokes[ni] = "ok"
                   THEN /\ ni' = ni + 1
                        /\ UNCHANGED <<npc, appErr>>
                   ELSE /\ appErr' = <<ErrInvoke(ni)>>
                        /\ npc' = IF invokes[ni] = "graph" THEN "handle_graph" ELSE "handle"
                        /\ ni' = 1
    /\ UNCHANGED <<opts, provides, invokes, errorHooks, handled, registered, runVars, sdVars, lcRest>>

\* the error New hands to the handlers: err, or errorWithGraph{err} if
\* dig.CanVisualizeError(err)
HandlerArg == IF npc = "handle_graph" THEN ErrorWithGraph(appErr) ELSE appErr

\* variant: only the first handler is called
Mutant_HandleErrorFirstOnly ==
    /\ npc \in {"handle", "handle_graph"}
    /\ IF ni > Len(errorHooks) \/ ni > 1
         THEN /\ npc' = "done"
              /\ ni' = 0
              /\ UNCHANGED handled
         ELSE /\ handled' = Append(handled, <<errorHooks[ni], HandlerArg>>)
              /\ ni' = ni + 1
              /\ UNCHANGED npc
    /\ UNCHANGED <<opts, provides, invokes, errorHooks, registered, executed, appErr, runVars, sdVars, lcRest>>

\* errorHandlerList(app.errorHooks).HandleError(err): one handler per step
HandleError ==
    /\ npc \in {"handle", "handle_graph"}
    /\ IF ni > Len(errorHooks)
         THEN /\ npc' = "done"
              /\ ni' = 0
              /\ UNCHANGED handled
         ELSE /\ handled' = Append(handled, <<errorHooks[ni], HandlerArg>>)
              /\ ni' = ni + 1
              /\ UNCHANGED npc
    /\ UNCHANGED <<opts, provides, invokes, errorHooks, registered, executed, appErr, runVars, sdVars, lcRest>>

NextNew ==
    \/ ApplyOption
    \/ ProvideStep
    \/ InvokeStep
    \/ HandleError

SpecNew == InitNew /\ [][NextNew]_vars

\* ============================================================== properties
Returned(c) == result[c] # <<>>

Res(c) == result[c][1]

\* the caller of c got what c's pass returned, not ctx.Err()
ReturnedPass(c) == Returned(c) /\ Res(c) # <<DeadlineExceeded>>

\* no other pass ran while c's pass did: every earlier call returned its pass's
\* result, and no later call was made while c's pass could still be running
Quiet(c) ==
    /\ c <= ncalls
    /\ \A d \in 1..(c - 1) : ReturnedPass(d)
    /\ (ncalls = c \/ ReturnedPass(c))

Elems(s) == {s[k] : k \in 1..Len(s)}

Decreasing(s) == \A k \in 1..(Len(s) - 1) : s[k] > s[k + 1]

\* the hooks among the first n that have an OnStop
WithStop(n) == {i \in 1..n : i <= Len(hooks) /\ hooks[i].onStop # "nil"}

FailedStops(c) == {i \in Elems(stopLog[c]) : hooks[i].onStop = "err"}

\* the hook whose OnStart failed in call c (0: none)
FailedHook(c) == IF startErr[c] = Nil THEN 0 ELSE startErr[c][1].hook

\* C1: a Stop that follows a successful Start, with no other pass running,
\* invokes OnStop in strictly decreasing registration order, and once its pass
\* is over it has invoked the OnStop of every hook that Start started.
C1_StopReverseOrder ==
    \A c \in 2..MaxCalls :
        (kind[c] = "stop" /\ kind[c - 1] = "start" /\ Quiet(c) /\ Res(c - 1) = Nil)
        => /\ Decreasing(stopLog[c])
           /\ Elems(stopLog[c]) \subseteq WithStop(atCall[c])
           /\ (pc[c] = "in_stop" => inHook[c] = stopLog[c][Len(stopLog[c])])
           /\ (pc[c] = "done" => WithStop(rangeLen[c - 1]) \subseteq Elems(stopLog[c]))

C1_Witness ==
    \E c \in 2..MaxCalls :
        /\ kind[c] = "stop" /\ kind[c - 1] = "start" /\ Quiet(c) /\ Res(c - 1) = Nil
        /\ pc[c] = "done"
        /\ stopLog[c] = <<2, 1>>

\* C2: when OnStart of hook k fails in Start, no OnStart of a later hook is
\* invoked and the rollback invokes OnStop only for hooks before k, in
\* decreasing order.
C2_RollbackOnlyBeforeFailure ==
    \A c \in Calls :
        (kind[c] = "start" /\ Quiet(c) /\ FailedHook(c) # 0)
        => /\ \A i \in Elems(startLog[c]) : i <= FailedHook(c)
           /\ \A i \in Elems(stopLog[c]) : i < FailedHook(c)
           /\ Decreasing(stopLog[c])

\* C3: a failed Start whose rollback had failing OnStop calls returns an error
\* that holds the start error and every one of the rollback's errors.
C3_StartAndRollbackErrors ==
    \A c \in Calls :
        (kind[c] = "start" /\ ReturnedPass(c) /\ FailedHook(c) # 0
            /\ FailedStops(c) # {})
        => /\ Contains(Res(c), ErrStart(FailedHook(c)))
           /\ \A i \in FailedStops(c) : Contains(Res(c), ErrStop(i))

C3_Witness ==
    \E c \in Calls :
        /\ kind[c] = "start" /\ ReturnedPass(c) /\ FailedHook(c) = 2
        /\ FailedStops(c) = {1}
        /\ Res(c) = <<ErrStart(2), ErrStop(1)>>

\* C4: a failed Start whose rollback's OnStop calls all succeeded returns the
\* failing hook's start error and nothing else.
C4_OnlyStartError ==
    \A c \in Calls :
        (kind[c] = "start" /\ ReturnedPass(c) /\ FailedHook(c) # 0
            /\ FailedStops(c) = {})
        => Res(c) = <<ErrStart(FailedHook(c))>>

C4_Witness ==
    \E c \in Calls :
        /\ kind[c] = "start" /\ ReturnedPass(c) /\ FailedHook(c) = 2
        /\ stopLog[c] = <<1>> /\ FailedStops(c) = {}
        /\ Res(c) = <<ErrStart(2)>>

\* C5 as stated: of two consecutive Stop calls the second invokes no hook
\* callback and its pass returns nil, whatever the first call returned.
C5_StopTwice_AsStated ==
    \A c \in 2..MaxCalls :
        (kind[c] = "stop" /\ kind[c - 1] = "stop")
        => /\ stopLog[c] = <<>>
           /\ (ReturnedPass(c) => Res(c) = Nil)

\* C5, amended: of two consecutive Stop calls, the first having returned what
\* its pass returned (nil or any error, but not ctx.Err()) and no other pass
\* being under way, the second invokes no hook callback and its pass returns nil.
C5_StopTwice ==
    \A c \in 2..MaxCalls :
        (kind[c] = "stop" /\ kind[c - 1] = "stop" /\ Quiet(c))
        => /\ stopLog[c] = <<>>
           /\ startLog[c] = <<>>
           /\ (pc[c] = "done" /\ ~Returned(c) => chan[c] = <<Nil>>)
           /\ (ReturnedPass(c) => Res(c) = Nil)

C5_Witness ==
    \E c \in 2..MaxCalls :
        /\ kind[c] = "stop" /\ kind[c - 1] = "stop" /\ Quiet(c)
        /\ Res(c - 1) # Nil
        /\ ReturnedPass(c) /\ Res(c) = Nil /\ stopLog[c] = <<>>

\* a callback of call c is running
C7_InHook(c) == pc[c] \in {"in_start", "in_stop"}

\* C7: while a hook callback of the current call is running and the context is
\* done, the call's only way out is there already and returns ctx.Err(); a call
\* that returns while its callback runs returns ctx.Err(); and what a call
\* returned is never changed by what its goroutine does afterwards.
C7_DeadlineWins ==
    /\ [](\A c \in Calls :
            (~crashed /\ cur = c /\ ctxDone /\ C7_InHook(c))
            => (chan[c] = <<>> /\ ENABLED SelectCtxDone))
    /\ [][\A c \in Calls :
            /\ (cur = c /\ cur' # c /\ C7_InHook(c))
               => result'[c] = <<(<<DeadlineExceeded>>)>>
            /\ Returned(c) => result'[c] = result[c]]_vars

\* the caller holds ctx.Err() while the callback it did not wait for still runs
C7_Witness ==
    \E c \in Calls :
        /\ Returned(c) /\ Res(c) = <<DeadlineExceeded>>
        /\ C7_InHook(c)
        /\ chan[c] = <<>>

\* C8: with App.err set, Start returns App.err, no OnStart and no OnStop is
\* ever invoked, numStarted stays 0 and the steps of Start leave hooks as is.
C8_ConstructionErrorShortCircuit ==
    /\ [](appErr # Nil
          => /\ numStarted = 0
             /\ \A c \in Calls :
                  /\ startLog[c] = <<>>
                  /\ stopLog[c] = <<>>
                  /\ (kind[c] = "start" /\ ReturnedPass(c) => Res(c) = appErr))
    /\ [][\A c \in Calls :
            (appErr # Nil /\ kind[c] = "start" /\ pc'[c] # pc[c])
            => (hooks' = hooks /\ numStarted' = numStarted)]_vars

C8_Witness ==
    /\ appErr # Nil
    /\ Len(hooks) > 0
    /\ \E c \in Calls : kind[c] = "start" /\ ReturnedPass(c) /\ Res(c) = appErr

\* C9: a Stop with no other pass running invokes the OnStop of every started
\* hook that has one exactly once, failures notwithstanding, and the error it
\* returns holds the error of every failing OnStop.
C9_StopBestEffort ==
    \A c \in Calls :
        (kind[c] = "stop" /\ Quiet(c))
        => /\ Decreasing(stopLog[c])
           /\ Elems(stopLog[c]) \subseteq WithStop(atCall[c])
           /\ (pc[c] = "done" => Elems(stopLog[c]) = WithStop(atCall[c]))
           /\ (ReturnedPass(c)
                 => /\ Len(Res(c)) = Cardinality(FailedStops(c))
                    /\ \A i \in FailedStops(c) : Contains(Res(c), ErrStop(i)))

C9_Witness ==
    \E c \in Calls :
        /\ kind[c] = "stop" /\ Quiet(c) /\ ReturnedPass(c)
        /\ stopLog[c] = <<2, 1>>
        /\ Res(c) = <<ErrStop(2), ErrStop(1)>>

\* C10: as long as no call has timed out, 0 <= numStarted <= len(hooks).
C10_StartedCountInRange ==
    TimedOut = {} => (0 <= numStarted /\ numStarted <= Len(hooks))

\* nothing is started when call c is made: no Start was called before it, or
\* App.err is set, or the call before it was a Start that failed and whose
\* rollback is over
NothingStarted(c) ==
    \/ \A d \in 1..(c - 1) : kind[d] # "start"
    \/ appErr # Nil
    \/ /\ c > 1
       /\ kind[c - 1] = "start"
       /\ startErr[c - 1] # Nil
       /\ ReturnedPass(c - 1)

\* C20: a Stop called when nothing is started (Start never ran, or
\* short-circuited on App.err, or failed and rolled back), with no other pass
\* running, invokes no hook callback, does not panic and its pass returns nil.
C20_StopNothingStarted ==
    \A c \in Calls :
        (kind[c] = "stop" /\ Quiet(c) /\ NothingStarted(c))
        => /\ stopLog[c] = <<>>
           /\ startLog[c] = <<>>
           /\ pc[c] \in {"stop_loop", "done"}
           /\ (pc[c] = "done" /\ ~Returned(c) => chan[c] = <<Nil>>)
           /\ (ReturnedPass(c) => Res(c) = Nil)

C20_Witness ==
    \E c \in 2..MaxCalls :
        /\ kind[c] = "stop" /\ Quiet(c)
        /\ appErr = Nil
        /\ kind[c - 1] = "start" /\ Res(c - 1) = <<ErrStart(2)>>
        /\ stopLog[c - 1] = <<1>>
        /\ ReturnedPass(c) /\ Res(c) = Nil /\ stopLog[c] = <<>>

\* ------------------------------------------------------------- broadcaster
\* the channels of a list that hold a signal
Full(slots) == {i \in 1..Len(slots) : slots[i] # <<>>}

\* C6: a broadcast that nothing else interferes with, over N channels of which
\* M held a signal when it began, has counted M unsent when its loop is over,
\* returns the error for M out of N (nil for M = 0), has left the M channels
\* as they were and has put SIGTERM in each of the other N - M.
C6_BroadcastCounts ==
    \A b \in Broadcasts :
        (bpc[b] = "loop" /\ bi[b] > Len(dones) /\ alone[b])
        => LET M == Cardinality(Full(pre[b]))
               N == Len(pre[b])
           IN /\ Len(dones) = N
              /\ unsent[b] = M
              /\ BroadcastResult(b) =
                   (IF M = 0 THEN Nil ELSE <<ErrBroadcast(SIGTERM, M, N)>>)
              /\ \A i \in 1..N :
                   dones[i] = (IF i \in Full(pre[b]) THEN pre[b][i] ELSE <<SIGTERM>>)

C6_Witness ==
    \E b \in Broadcasts :
        /\ bpc[b] = "loop" /\ bi[b] > Len(dones) /\ alone[b]
        /\ Len(pre[b]) = 3
        /\ Cardinality(Full(pre[b])) = 1
        /\ BroadcastResult(b) = <<ErrBroadcast(SIGTERM, 1, 3)>>
        /\ Cardinality(Full(dones)) = 3

\* the channels broadcast b tried that did not take the signal
Refused(b) == {k \in 1..Len(tried[b]) : ~tried[b][k]}

\* C13: when the loop of a broadcast is over it has tried every registered
\* channel; it returns nil exactly when every one of them took the signal in
\* this call, and otherwise the error that reports the number of channels that
\* did not and the number of channels.
C13_ShutdownResult ==
    \A b \in Broadcasts :
        (bpc[b] = "loop" /\ bi[b] > Len(dones))
        => /\ Len(tried[b]) = Len(dones)
           /\ (BroadcastResult(b) = Nil <=> Refused(b) = {})
           /\ (Refused(b) # {}
                 => BroadcastResult(b) =
                      <<ErrBroadcast(SIGTERM, Cardinality(Refused(b)), Len(dones))>>)

C13_Witness ==
    \E b \in Broadcasts :
        /\ bpc[b] = "loop" /\ bi[b] > Len(dones)
        /\ tried[b] = <<TRUE, FALSE, FALSE>>
        /\ BroadcastResult(b) = <<ErrBroadcast(SIGTERM, 2, 3)>>

\* C14: a broadcast that holds the read lock always has its next step at hand,
\* whatever the channels hold and whether or not anyone receives; it returns
\* only after it has tried every channel; and it does return.
C14_BroadcastTerminates ==
    /\ [](\A b \in Broadcasts :
            bpc[b] = "loop"
            => /\ ENABLED (BroadcastSend(b) \/ BroadcastReturn(b))
               /\ (bi[b] <= Len(dones) => bi[b] = Len(tried[b]) + 1))
    /\ [][\A b \in Broadcasts :
            (bpc[b] = "loop" /\ bpc'[b] = "done") => Len(tried[b]) = Len(dones)]_vars
    /\ \A b \in Broadcasts : (bpc[b] = "loop") ~> (bpc[b] = "done")

\* a broadcast over three channels that all held a signal has returned
C14_Witness ==
    \E b \in Broadcasts :
        /\ bpc[b] = "done"
        /\ Len(dones) = 3
        /\ bresult[b] = <<ErrBroadcast(SIGTERM, 3, 3)>>

\* C26: a channel made by Done, appended to app.dones or not yet, never holds
\* more than one signal that was not received.
C26_OnePendingSignal ==
    /\ \A i \in 1..Len(dones) : Len(dones[i]) <= 1
    /\ \A k \in 1..Len(fresh) : Len(fresh[k]) <= 1

\* a broadcast found the first channel full and left it holding its one signal
C26_Witness ==
    \E b \in Broadcasts :
        /\ bpc[b] = "loop"
        /\ Len(tried[b]) >= 1
        /\ ~tried[b][1]
        /\ Len(dones[1]) = 1

\* b's loop is over and it has not returned yet
LoopOver(b) == bpc[b] = "loop" /\ bi[b] > Len(dones)

\* the channels broadcast b put its signal in
Took(b) == {k \in 1..Len(tried[b]) : tried[b][k]}

\* the channels that hold a signal which neither b1 nor b2 put there
Outside(b1, b2) == {i \in Full(dones) : i \notin Took(b1) \cup Took(b2)}

\* C27: nobody receives. Two broadcasts run at the same time over N channels
\* that were all empty when the first began, and no other broadcast has run,
\* so every channel ends up holding exactly one signal and the two unsent
\* counts add up to N.
C27_SumIsSlots ==
    \A b1, b2 \in Broadcasts :
        (/\ b1 # b2
         /\ LoopOver(b1) /\ LoopOver(b2)
         /\ Full(pre[b1]) = {}
         /\ \A x \in Broadcasts \ {b1, b2} : bpc[x] = "idle")
        => /\ \A i \in 1..Len(dones) : Len(dones[i]) = 1
           /\ unsent[b1] + unsent[b2] = Len(dones)

\* C27: nobody receives. Two broadcasts run at the same time over N channels
\* that were all empty when the first began, and no other broadcast has run.
\* When both loops are over every channel holds exactly one signal, no channel
\* took the signal of both, and the two unsent counts add up to N plus the
\* number of channels that hold a signal neither broadcast put there; when
\* there is no such channel every channel holds SIGTERM and the sum is N. While the two run, a step of a
\* broadcast never adds to those channels, and any other step that changes a
\* channel (a SIGINT or SIGTERM delivered for signal.Notify) fills one empty
\* channel and adds exactly it.
C27_TwoShutdowns ==
    /\ [](\A b1, b2 \in Broadcasts :
            (/\ b1 # b2
             /\ LoopOver(b1) /\ LoopOver(b2)
             /\ Full(pre[b1]) = {}
             /\ \A x \in Broadcasts \ {b1, b2} : bpc[x] = "idle")
            => /\ \A i \in 1..Len(dones) : Len(dones[i]) = 1
               /\ Took(b1) \cap Took(b2) = {}
               /\ unsent[b1] + unsent[b2] =
                    Len(dones) + Cardinality(Outside(b1, b2))
               /\ Outside(b1, b2) = {}
                    => /\ \A i \in 1..Len(dones) : dones[i] = <<SIGTERM>>
                       /\ unsent[b1] + unsent[b2] = Len(dones))
    /\ [][\A b1, b2 \in Broadcasts :
            (/\ b1 # b2
             /\ bpc[b1] = "loop" /\ bpc'[b1] = "loop"
             /\ bpc[b2] # "done" /\ bpc'[b2] # "done"
             /\ Full(pre[b1]) = {}
             /\ \A x \in Broadcasts \ {b1, b2} : bpc[x] = "idle" /\ bpc'[x] = "idle")
            => IF bi' # bi \/ bpc' # bpc
                 THEN Outside(b1, b2)' = Outside(b1, b2)
                 ELSE dones' # dones
                        => \E i \in 1..Len(dones) :
                              /\ dones[i] = <<>>
                              /\ dones'[i] \in {<<sig>> : sig \in Signals}
                              /\ Outside(b1, b2)' = Outside(b1, b2) \cup {i}]_vars

\* a SIGINT from outside took the second channel before either broadcast
\* reached it: both counted it, and the counts add up to 3 + 1
C27_Witness ==
    /\ LoopOver(1) /\ LoopOver(2)
    /\ Len(dones) = 3
    /\ Full(pre[1]) = {}
    /\ dones = <<(<<SIGTERM>>), (<<SIGINT>>), (<<SIGTERM>>)>>
    /\ tried[1] = <<TRUE, FALSE, FALSE>>
    /\ tried[2] = <<FALSE, FALSE, TRUE>>
    /\ unsent[1] = 2 /\ unsent[2] = 2

\* C33: a broadcast made while no channel is registered tries nothing, returns
\* nil and leaves app.dones as it is; a channel Done makes is empty when made,
\* whatever broadcasts were made before; no step of a broadcast touches a
\* channel that is not in app.dones yet; and Done appends the channel as it is
\* (it holds a signal only if one came from outside in between).
C33_BroadcastToNobody ==
    /\ [](\A b \in Broadcasts :
            (bpc[b] = "loop" /\ pre[b] = <<>>)
            => /\ dones = <<>>
               /\ unsent[b] = 0
               /\ tried[b] = <<>>
               /\ ~ENABLED BroadcastSend(b)
               /\ BroadcastResult(b) = Nil)
    /\ [][\A b \in Broadcasts :
            (bpc[b] = "loop" /\ pre[b] = <<>> /\ bpc'[b] = "done")
            => (dones' = dones /\ bresult'[b] = Nil)]_vars
    /\ [][/\ Len(fresh') > Len(fresh) => fresh'[Len(fresh')] = <<>>
          /\ (bpc' # bpc \/ bi' # bi) => fresh' = fresh
          /\ Len(dones') > Len(dones)
               => /\ Len(dones') = Len(dones) + 1
                  /\ \E k \in 1..Len(fresh) :
                        /\ dones'[Len(dones')] = fresh[k]
                        /\ fresh' = Without(fresh, k)]_vars

\* a broadcast returned nil and the one channel, registered after it, is empty
\* (nobody receives: had the broadcast found the channel it would hold SIGTERM)
C33_Witness ==
    /\ bpc[1] = "done" /\ bresult[1] = Nil
    /\ bpc[2] = "idle"
    /\ dones = <<(<<>>)>>

\* C34: while a broadcast holds the read lock the registered channels are
\* those that were registered when it took the lock; its loop tries each of
\* them once, in order, and no other; the error it returns gives their number
\* as the total; and app.dones only ever grows, by one channel at its end.
C34_ListenerSetAtomic ==
    /\ [](\A b \in Broadcasts :
            bpc[b] = "loop"
            => /\ Len(dones) = Len(pre[b])
               /\ Len(tried[b]) = bi[b] - 1
               /\ (LoopOver(b) => Len(tried[b]) = Len(pre[b]))
               /\ (LoopOver(b) /\ BroadcastResult(b) # Nil
                     => BroadcastResult(b)[1].total = Len(pre[b])))
    /\ [][/\ Len(dones') >= Len(dones)
          /\ Len(dones') <= Len(dones) + 1
          /\ (Len(dones') > Len(dones)
                => SubSeq(dones', 1, Len(dones)) = dones)]_vars

\* a broadcast over two channels returned its error for 1 out of 2, and a
\* third channel was registered after it
C34_Witness ==
    \E b \in Broadcasts :
        /\ bpc[b] = "done"
        /\ bresult[b] = <<ErrBroadcast(SIGTERM, 1, 2)>>
        /\ Len(dones) = 3

\* ---------------------------------------------------------------- fx.New
\* every handler of app.errorHooks called once, in order, with err
EachHandlerOnce(err) == [k \in 1..Len(errorHooks) |-> <<errorHooks[k], err>>]

\* C15 as stated: when New is over and App.err is set, whatever set it, every
\* registered handler has been called once, in registration order, with App.err.
C15_HandlersOnAnyError ==
    (npc = "done" /\ appErr # Nil) => handled = EachHandlerOnce(appErr)

\* the invocation that failed (0: none)
FailedInvoke == IF appErr # Nil /\ appErr[1].kind = "invoke" THEN appErr[1].hook ELSE 0

\* C15, amended: when New is over and App.err is the error of a failed
\* invocation, every registered handler has been called once, in registration
\* order, with that error, or with that error wrapped in errorWithGraph when
\* dig can visualize it; when App.err is nil or comes from an Error option or
\* from registering a constructor (one given to Provide or one of fx itself),
\* no handler has been called.
C15_HandlersOnInvokeError ==
    npc = "done"
    => IF FailedInvoke # 0
         THEN handled = EachHandlerOnce(IF invokes[FailedInvoke] = "graph"
                                          THEN ErrorWithGraph(appErr) ELSE appErr)
         ELSE handled = <<>>

C15_Witness ==
    /\ npc = "done"
    /\ errorHooks = <<2, 1>>
    /\ appErr = <<ErrInvoke(1)>>
    /\ handled = <<(<<2, appErr>>), (<<1, appErr>>)>>

\* C17 as stated: once App.err is set, no step of New changes it.
C17_ErrNeverChanges ==
    [][appErr # Nil => appErr' = appErr]_vars

\* s is the beginning of t
IsPrefix(s, t) == Len(s) <= Len(t) /\ \A k \in 1..Len(s) : t[k] = s[k]

\* C17, amended: once App.err is set, registering constructors and running
\* invocations never change it, and an Error option applied later only appends
\* its errors after the ones App.err holds; the first error recorded stays first.
C17_ErrSticky ==
    [][appErr # Nil
         => /\ IsPrefix(appErr, appErr')
            /\ (appErr' # appErr
                  => /\ npc = "opts"
                     /\ ni <= Len(opts)
                     /\ opts[ni].op = "Error"
                     /\ opts[ni].arg # <<>>)]_vars

\* New is over: the error of the first option is all App.err holds, though a
\* constructor the container refuses and a failing invocation came after it
C17_Witness ==
    /\ npc = "done"
    /\ Len(opts) = 3
    /\ opts[1].op = "Error"
    /\ appErr = <<ErrOption(1)>>
    /\ provides = <<"bad">>
    /\ invokes = <<"err">>

\* ------------------------------------------------------------- deadlines
\* the context passed to call c is done
CtxIsDone(c) == (cur = c /\ ctxDone) \/ c \in TimedOut

\* the goroutine of call c is in the app.lifecycle.Stop(ctx) of App.start, in
\* a process that is alive
InRollback(c) ==
    /\ ~crashed
    /\ kind[c] = "start"
    /\ startErr[c] # Nil
    /\ pc[c] \in {"stop_loop", "stop_body", "stop_post", "in_stop", "stop_dec"}

\* C18 as stated: the rollback has a deadline of its own, so the context it is
\* given is not done when it begins.
C18_RollbackOwnDeadline ==
    \A c \in Calls :
        (InRollback(c) /\ pc[c] = "stop_loop" /\ stopLog[c] = <<>> /\ errs[c] = <<>>)
        => ~CtxIsDone(c)

\* C18, amended: the rollback runs under the context of the Start call. When
\* that context is done while the rollback runs, Start returns ctx.Err() there
\* and then; when that context has no deadline, nothing but the end of the
\* rollback makes Start return.
C18_RollbackUnderStartCtx ==
    \A c \in Calls :
        (cur = c /\ InRollback(c))
        => /\ (ctxDone => ENABLED SelectCtxDone)
           /\ (~ctxBound => ~ctxDone /\ ~ENABLED CtxExpire /\ ~ENABLED SelectCtxDone
                             /\ ~ENABLED SelectResult)

C18_Witness ==
    \E c \in Calls :
        /\ cur = c /\ InRollback(c)
        /\ pc[c] = "in_stop"
        /\ ctxDone

\* C19 as stated: whatever context a direct Start or Stop was given, its wait
\* for a running callback is bounded by a deadline.
C19_BoundedByTimeout ==
    \A c \in Calls : (cur = c /\ C7_InHook(c)) => ctxBound

\* C19, amended: a direct Start or Stop is bounded by the context the caller
\* passed and by nothing else. While a callback runs, the call returns ctx.Err()
\* as soon as that context is done, and a call given a context without deadline
\* has no way to return.
C19_BoundedByCallerCtx ==
    \A c \in Calls :
        (~crashed /\ cur = c /\ C7_InHook(c))
        => /\ chan[c] = <<>>
           /\ (ctxDone => ctxBound /\ ENABLED SelectCtxDone)
           /\ (~ctxDone => ~ENABLED SelectCtxDone /\ ~ENABLED SelectResult)
           /\ (~ctxBound => ~ENABLED CtxExpire)

\* a call given context.Background() waits for a callback that is running
C19_Witness ==
    \E c \in Calls :
        /\ cur = c /\ C7_InHook(c)
        /\ ~ctxBound

\* ---------------------------------------------------------------- App.Run
\* the hooks among the first n that have an OnStop, last first
RECURSIVE StopOrder(_)
StopOrder(n) ==
    IF n = 0 THEN <<>>
    ELSE IF hooks[n].onStop # "nil" THEN <<n>> \o StopOrder(n - 1)
    ELSE StopOrder(n - 1)

\* Start succeeded in Run, and a signal is in the channel Run waits on
Triggered == runPc = "waiting" /\ dones[runSlot] # <<>>

\* the Stop call of Run has invoked the OnStop of every started hook, last first
RunStopped ==
    \E c \in Calls :
        /\ kind[c] = "stop"
        /\ stopLog[c] = StopOrder(Len(hooks))
        /\ pc[c] = "done"

\* C11 as stated: once Start succeeded in Run and the signal is in its channel,
\* the Stop pass comes to invoke the OnStop of every started hook, last first.
C11_RunStopsEverything == Triggered ~> RunStopped

\* C11, amended: once Start succeeded in Run and the signal is in its channel,
\* the Stop pass comes to invoke the OnStop of every started hook, last first,
\* unless the stop deadline passes first, which makes Run end the process.
C11_RunStopsUnlessDeadline ==
    Triggered ~> (RunStopped \/ (runPc = "fatal" /\ TimedOut # {}))

C11_Witness ==
    /\ runPc = "returned"
    /\ bresult[1] = Nil /\ bpc[1] = "done"
    /\ \E c \in Calls : kind[c] = "stop" /\ stopLog[c] = <<2, 1>> /\ Res(c) = Nil

\* C12: when the Start of Run has failed, run ends the process there: it never
\* waits for the signal, never receives it and never calls Stop, so that the
\* OnStop calls made are those of the rollback of that Start, of hooks it started.
C12_FatalStart ==
    (runPc \notin {"idle", "registering", "start", "starting"} /\ Res(1) # Nil)
    => /\ runPc = "fatal"
       /\ crashed
       /\ ncalls = 1
       /\ \A c \in Calls : kind[c] # "stop"
       /\ \A c \in Calls \ {1} : stopLog[c] = <<>> /\ startLog[c] = <<>>
       /\ Decreasing(stopLog[1])
       /\ \A i \in Elems(stopLog[1]) : i < FailedHook(1)
       /\ ~ENABLED RunSteps

C12_Witness ==
    /\ runPc = "fatal"
    /\ Res(1) = <<ErrStart(2)>>
    /\ stopLog[1] = <<1>>
    /\ dones[runSlot] # <<>>

\* C31: in Run, after Start returned nil, no Stop is called and no OnStop is
\* invoked until run has received from its own channel: run leaves its wait
\* only by taking a signal out of that channel.
C31_NoStopBeforeSignal ==
    /\ []((Returned(1) /\ Res(1) = Nil /\ runPc \in {"starting", "waiting", "stop"})
            => \A c \in Calls : stopLog[c] = <<>> /\ kind[c] # "stop")
    /\ [][(runPc = "waiting" /\ runPc' # "waiting")
            => /\ dones[runSlot] # <<>>
               /\ dones'[runSlot] = Tail(dones[runSlot])
               /\ runPc' = "stop"]_vars

\* Start returned nil, the signal was received, and Stop has stopped both hooks
C31_Witness ==
    /\ Returned(1) /\ Res(1) = Nil
    /\ runPc = "stopping"
    /\ kind[2] = "stop"
    /\ stopLog[2] = <<2, 1>>

\* the signal is in the channel of Run while Start runs
EarlySignal == runPc = "starting" /\ dones[runSlot] # <<>>

\* C32: run's channel is registered before any OnStart is invoked; a signal
\* put in it while Start runs stays there until run receives it; and with it
\* there, Run comes to call Stop once Start has returned nil (or ends the
\* process because Start failed).
C32_EarlyShutdownKept ==
    /\ []((\E c \in Calls : pc[c] # "idle") => (runSlot # 0 /\ runSlot <= Len(dones)))
    /\ [][(runPc \in {"start", "starting", "waiting"} /\ dones[runSlot] # <<>>)
            => \/ dones'[runSlot] = dones[runSlot]
               \/ (runPc = "waiting" /\ runPc' = "stop")]_vars
    /\ EarlySignal ~> (runPc = "fatal" \/ \E c \in Calls : kind[c] = "stop")

\* Shutdown() has returned nil while the first OnStart runs, and its signal
\* is in the channel of Run
C32_Witness ==
    /\ runPc = "starting"
    /\ pc[1] = "in_start" /\ inHook[1] = 1
    /\ bpc[1] = "done" /\ bresult[1] = Nil
    /\ dones[runSlot] = <<SIGTERM>>

\* C16 as stated: a Start that returned the error of a failed OnStart has had
\* every registered handler called once, in registration order, with that error.
C16_StartFailureHandled ==
    \A c \in Calls :
        (kind[c] = "start" /\ ReturnedPass(c) /\ FailedHook(c) # 0)
        => (handled = EachHandlerOnce(startErr[c]) \/ handled = EachHandlerOnce(Res(c)))

\* C16, amended: a Start that failed because an OnStart returned an error
\* returns that error to its caller, and no step of Start or of its rollback
\* calls an error handler.
C16_StartFailureReturnedOnly ==
    /\ handled = <<>>
    /\ \A c \in Calls :
          (kind[c] = "start" /\ ReturnedPass(c) /\ FailedHook(c) # 0)
          => Contains(Res(c), ErrStart(FailedHook(c)))

C16_Witness ==
    /\ errorHooks = <<1, 2>>
    /\ handled = <<>>
    /\ \E c \in Calls :
          kind[c] = "start" /\ ReturnedPass(c) /\ Res(c) = <<ErrStart(1)>>

\* ----------------------------------------------------- app.executeInvokes
\* the invocations that fail
Failing == {i \in 1..Len(invokes) : invokes[i] # "ok"}

\* C38: New runs the invocations in the order given: the k-th one run is the
\* k-th given, every one run before another succeeded, none is run after one
\* that failed, and when New is over after running invocations App.err is
\* the error of the first that fails (nil when none does, all of them run).
C38_InvokesInOrder ==
    /\ \A k \in 1..Len(executed) :
          /\ executed[k] = k
          /\ k <= Len(invokes)
          /\ (k < Len(executed) => invokes[k] = "ok")
    /\ (npc = "done" /\ (executed # <<>> \/ (appErr = Nil /\ Len(opts) > 0))
          => IF Failing = {}
               THEN appErr = Nil /\ Len(executed) = Len(invokes)
               ELSE \E f \in Failing :
                      /\ \A g \in Failing : f <= g
                      /\ appErr = <<ErrInvoke(f)>>
                      /\ Len(executed) = f)

C38_Witness ==
    /\ npc = "done"
    /\ invokes = <<"ok", "err", "graph">>
    /\ executed = <<1, 2>>
    /\ appErr = <<ErrInvoke(2)>>

\* ------------------------------------------------------------ fx.Error
\* the Error options among the options passed to New
ErrorOptions == {k \in 1..Len(opts) : opts[k].op = "Error"}

RECURSIVE ErrorsUpTo(_)
\* the errors of the first n options, in the order they were given
ErrorsUpTo(n) ==
    IF n = 0 THEN Nil
    ELSE IF opts[n].op = "Error"
      THEN ErrorsUpTo(n - 1) \o [k \in 1..Len(opts[n].arg) |-> ErrOption(opts[n].arg[k])]
      ELSE ErrorsUpTo(n - 1)

\* C22: New was given an Error option, so no constructor is registered, no
\* invocation is executed, and Err returns the errors of the Error options.
C22_ErrorOptionShortCircuits ==
    (npc = "done" /\ ErrorOptions # {})
        => /\ registered = <<>>
           /\ executed = <<>>
           /\ appErr = ErrorsUpTo(Len(opts))

\* ------------------------------------------------ numStarted at a failure
\* C23: when OnStart of hook k fails in a Start that no other pass runs
\* beside, numStarted is, before the rollback begins, the number of hooks that
\* precede k.
C23_CountAtFailure ==
    [][\A c \in Calls :
          (Quiet(c) /\ pc[c] = "in_start" /\ pc'[c] = "stop_loop")
          => numStarted' = inHook[c] - 1]_vars

\* ------------------------------------------------------- absent callbacks
\* C24: a Start that succeeds with no other pass running counts every hook
\* of its pass, those without OnStart included; the Stop that follows invokes
\* no callback for a hook without OnStop, and once its pass is over it has
\* invoked, in decreasing order, the OnStop of every hook without OnStart
\* that has one, and has counted numStarted down to 0.
C24_AbsentCallbacks ==
    \A c \in 2..MaxCalls :
        (kind[c] = "stop" /\ kind[c - 1] = "start" /\ Quiet(c) /\ Res(c - 1) = Nil)
        => /\ atCall[c] = atCall[c - 1] + rangeLen[c - 1]
           /\ \A i \in Elems(stopLog[c]) : hooks[i].onStop # "nil"
           /\ (pc[c] = "done" /\ ncalls = c
                => /\ \A i \in 1..rangeLen[c - 1] :
                         (hooks[i].onStart = "nil" /\ hooks[i].onStop # "nil")
                         => i \in Elems(stopLog[c])
                   /\ Decreasing(stopLog[c])
                   /\ numStarted = 0)

C24_Witness ==
    \E c \in 2..MaxCalls :
        /\ kind[c] = "stop" /\ kind[c - 1] = "start" /\ Quiet(c) /\ Res(c - 1) = Nil
        /\ pc[c] = "done" /\ ncalls = c
        /\ Len(hooks) = 2 /\ rangeLen[c - 1] = 2
        /\ hooks[1].onStart = "nil" /\ hooks[1].onStop = "ok"
        /\ hooks[2].onStart = "ok" /\ hooks[2].onStop = "nil"
        /\ stopLog[c] = <<1>>
        /\ numStarted = 0

\* ------------------------------------------------------ after a stop pass
\* call c ran Lifecycle.Stop: it is a Stop, or a Start whose OnStart failed
RanStop(c) == kind[c] = "stop" \/ (kind[c] = "start" /\ FailedHook(c) # 0)

\* C25: once a pass of Lifecycle.Stop that no other pass ran beside is over,
\* numStarted is 0, whatever OnStop calls failed or were absent.
C25_StopLeavesZero ==
    \A c \in Calls :
        (RanStop(c) /\ Quiet(c) /\ ncalls = c /\ pc[c] = "done")
        => numStarted = 0

C25_Witness ==
    \E c \in Calls :
        /\ kind[c] = "stop" /\ Quiet(c) /\ ncalls = c /\ pc[c] = "done"
        /\ atCall[c] = 2
        /\ hooks[1].onStop = "nil" /\ hooks[2].onStop = "err"
        /\ stopLog[c] = <<2>>
        /\ errs[c] = <<ErrStop(2)>>
        /\ numStarted = 0

\* the pass of Start call c is past hook i: its OnStart returned nil, or it
\* has none
PassedHook(c, i) ==
    /\ kind[c] = "start"
    /\ (iter[c] > i \/ (iter[c] = i /\ pc[c] = "start_inc"))

\* ------------------------------------------------- rollback before return
\* C35: a Start that no other pass ran beside and that returned an error
\* other than ctx.Err() returned once its goroutine was over: numStarted is 0
\* and every hook its pass got past that has an OnStop had it invoked.
C35_RollbackBeforeReturn ==
    \A c \in Calls :
        (kind[c] = "start" /\ Quiet(c) /\ ncalls = c /\ ReturnedPass(c) /\ Res(c) # Nil)
        => /\ pc[c] = "done"
           /\ numStarted = 0
           /\ \A i \in WithStop(rangeLen[c]) : PassedHook(c, i) => i \in Elems(stopLog[c])

C35_Witness ==
    \E c \in Calls :
        /\ kind[c] = "start" /\ Quiet(c) /\ ncalls = c /\ ReturnedPass(c)
        /\ FailedHook(c) = 2
        /\ Contains(Res(c), ErrStart(2))
        /\ stopLog[c] = <<1>>
        /\ numStarted = 0

\* ------------------------------------------------------------ the hooks
\* C36: no step of Start, of Stop or of their goroutines changes hooks; the
\* only change hooks ever sees is one hook added at its end, by a step that
\* leaves numStarted and every call as they are; and between calls Append can
\* always be taken, for any hook.
C36_HooksFrame ==
    /\ [][/\ (ncalls' # ncalls \/ pc' # pc \/ result' # result \/ numStarted' # numStarted)
               => hooks' = hooks
          /\ hooks' # hooks
               => /\ \E h \in Hook : hooks' = Append(hooks, h)
                  /\ SubSeq(hooks', 1, Len(hooks)) = hooks
                  /\ numStarted' = numStarted
                  /\ pc' = pc /\ result' = result /\ crashed' = crashed]_vars
    /\ []((~crashed /\ cur = 0 /\ Len(hooks) < MaxHooks)
            => \A h \in Hook : ENABLED Append_(h))

\* a hook was appended after a Start had counted the first one
C36_Witness ==
    /\ Len(hooks) = 2
    /\ hooks[1] # hooks[2]
    /\ ncalls = 1 /\ rangeLen[1] = 1
    /\ numStarted = 1

\* ---------------------------------------------------------------- restart
\* the hooks among the first n that have an OnStart, first first
RECURSIVE StartOrder(_)
StartOrder(n) ==
    IF n = 0 THEN <<>>
    ELSE IF hooks[n].onStart # "nil" THEN StartOrder(n - 1) \o <<n>>
    ELSE StartOrder(n - 1)

\* call c is a Start that follows a Start and a Stop, each made after the one
\* before returned what its pass returned, and the first Start returned nil
Restart(c) ==
    /\ c >= 3
    /\ kind[c - 2] = "start" /\ kind[c - 1] = "stop" /\ kind[c] = "start"
    /\ Quiet(c)
    /\ Res(c - 2) = Nil

\* call c is a Stop that follows a completed Stop and then a Start that returned nil
StopAgain(c) ==
    /\ c >= 3
    /\ kind[c - 2] = "stop" /\ kind[c - 1] = "start" /\ kind[c] = "stop"
    /\ Quiet(c)
    /\ Res(c - 1) = Nil

\* C37: a Start made after a Start and a Stop that both ran to their end
\* begins with numStarted = 0, invokes OnStart in registration order, and when
\* it returns nil it has invoked every OnStart and numStarted is the number of
\* hooks it ranged over, len(hooks) if none was appended since; and a Stop
\* made after a Start that followed a completed Stop invokes, once over, the
\* OnStop of every hook that Start counted, last first.
C37_StartAgain ==
    \A c \in Calls :
        /\ Restart(c)
             => /\ atCall[c] = 0
                /\ IsPrefix(startLog[c], StartOrder(rangeLen[c]))
                /\ (pc[c] = "done" /\ ncalls = c /\ startErr[c] = Nil
                      => /\ startLog[c] = StartOrder(rangeLen[c])
                         /\ numStarted = rangeLen[c]
                         /\ (Len(hooks) = rangeLen[c] => numStarted = Len(hooks)))
        /\ StopAgain(c)
             => /\ atCall[c] = rangeLen[c - 1]
                /\ IsPrefix(stopLog[c], StopOrder(rangeLen[c - 1]))
                /\ (pc[c] = "done" => stopLog[c] = StopOrder(rangeLen[c - 1]))

\* Start, Stop and Start again over two hooks: both OnStart were invoked
\* again, in order, and both hooks are counted
C37_Witness ==
    /\ Restart(3)
    /\ ncalls = 3 /\ pc[3] = "done"
    /\ startLog[1] = <<1, 2>>
    /\ stopLog[2] = <<2, 1>>
    /\ startLog[3] = <<1, 2>>
    /\ numStarted = 2 /\ Len(hooks) = 2

\* ---------------------------------------------------------- start order
\* the hooks among the first n that have an OnStart
WithStart(n) == {i \in 1..n : i <= Len(hooks) /\ hooks[i].onStart # "nil"}

Increasing(s) == \A k \in 1..(Len(s) - 1) : s[k] < s[k + 1]

\* C21: the OnStart calls of a pass are made in registration order, each one
\* after the OnStart of every earlier hook that has one was called and
\* returned nil, and the only callback of the pass that can be running is the
\* one called last.
C21_StartInOrder ==
    \A c \in Calls :
        /\ Increasing(startLog[c])
        /\ \A k \in 1..Len(startLog[c]) :
              /\ startLog[c][k] \in WithStart(rangeLen[c])
              /\ \A j \in WithStart(startLog[c][k] - 1) :
                    /\ \E m \in 1..(k - 1) : startLog[c][m] = j
                    /\ hooks[j].onStart = "ok"
        /\ (pc[c] = "in_start"
              => startLog[c] # <<>> /\ inHook[c] = startLog[c][Len(startLog[c])])
        /\ (pc[c] = "done" /\ kind[c] = "start" /\ startErr[c] = Nil /\ appErr = Nil
              => Elems(startLog[c]) = WithStart(rangeLen[c]))

C21_Witness ==
    \E c \in Calls :
        /\ kind[c] = "start" /\ Returned(c) /\ Res(c) = Nil
        /\ startLog[c] = <<1, 2>>

\* ------------------------------------------------------ abandoned passes
\* the goroutine of call c takes its next step
PassStep(c) ==
    \/ AppStartEnter(c)
    \/ LifecycleStartIter(c)
    \/ LifecycleStartReturn(c)
    \/ LifecycleStartInc(c)
    \/ LifecycleStopCond(c)
    \/ LifecycleStopBody(c)
    \/ LifecycleStopPost(c)
    \/ LifecycleStopReturn(c)
    \/ LifecycleStopDec(c)

\* the goroutine of call c has not run to its end
Running(c) == pc[c] \notin {"idle", "done"}

\* C28: returning ctx.Err() to the caller leaves the goroutine of the call and
\* numStarted as they are, and as long as that goroutine has not run to its end
\* its next step, a callback or an update of numStarted included, is at hand.
C28_AbandonedPassGoesOn ==
    /\ [][\A c \in Calls :
            (~Returned(c) /\ result'[c] = <<(<<DeadlineExceeded>>)>>)
            => /\ pc'[c] = pc[c]
               /\ inHook'[c] = inHook[c]
               /\ numStarted' = numStarted]_vars
    /\ [](\A c \in TimedOut : (~crashed /\ Running(c)) => ENABLED PassStep(c))

\* Start timed out before anything was counted (the Stop that followed found
\* numStarted = 0); its goroutine has since called both OnStart and counted
\* both hooks
C28_Witness ==
    /\ 1 \in TimedOut
    /\ kind[1] = "start"
    /\ ncalls = 2
    /\ kind[2] = "stop"
    /\ atCall[2] = 0
    /\ startLog[1] = <<1, 2>>
    /\ numStarted = 2

\* the calls whose goroutine is still running
RunningCalls == {c \in Calls : Running(c)}

\* C29 as stated: calls are made one after the other, each after the one
\* before returned, so at most one pass is running at any time, also after a
\* call returned ctx.Err().
C29_OnePassAtATime ==
    ~crashed => Cardinality(RunningCalls) <= 1

\* C29: calls are made one after the other, each after the one before
\* returned. A pass that is running is that of the call the caller waits for
\* or that of a call that returned ctx.Err(); so while no call has returned
\* ctx.Err() at most one pass is running.
C29_OnePassUnlessDeadline ==
    /\ \A c \in RunningCalls : c = cur \/ c \in TimedOut
    /\ (TimedOut = {} => Cardinality(RunningCalls) <= 1)

\* the pass of a Start runs with no call timed out
C29_Witness ==
    \E c \in Calls :
        /\ TimedOut = {}
        /\ c = 2
        /\ cur = c
        /\ RunningCalls = {c}
        /\ pc[c] = "in_start"

\* ------------------------------------------------- stops against starts
\* how many Start passes are past hook i
StartsDone(i) == Cardinality({c \in Calls : PassedHook(c, i)})

\* how many times call c invoked the OnStop of hook i
StopsIn(c, i) == Cardinality({k \in 1..Len(stopLog[c]) : stopLog[c][k] = i})

RECURSIVE StopsUpTo(_, _)
\* how many times the calls 1..c invoked the OnStop of hook i
StopsUpTo(c, i) == IF c = 0 THEN 0 ELSE StopsUpTo(c - 1, i) + StopsIn(c, i)

\* C30: calls are made one after the other, each after the one before
\* returned, some of them returning ctx.Err(). The OnStop of a hook has been
\* invoked at most as many times as a Start pass got past the hook, and so
\* never for a hook no Start pass got past.
C30_StopOncePerStart ==
    \A i \in 1..Len(hooks) : StopsUpTo(MaxCalls, i) <= StartsDone(i)

\* ------------------------------------------------- delivering the result
\* f has returned in the goroutine of call c: its next step is the send to c
AtSend(c) ==
    \/ pc[c] = "app_start" /\ appErr # Nil
    \/ pc[c] = "start_loop" /\ iter[c] > rangeLen[c]
    \/ pc[c] = "stop_loop" /\ numStarted <= 0

\* C39: the channel of a call never holds more than one result and is empty
\* as long as the goroutine runs; so the goroutine of a call that returned
\* ctx.Err() can always take the step that sends its result, and that step
\* ends it, the result staying in the channel and the caller's result as it was.
C39_AbandonedSendNeverBlocks ==
    /\ [](\A c \in Calls :
            /\ Len(chan[c]) <= 1
            /\ (Running(c) => chan[c] = <<>>)
            /\ (c \in TimedOut /\ ~crashed /\ AtSend(c))
                 => ENABLED (AppStartEnter(c) \/ LifecycleStartIter(c) \/ LifecycleStopCond(c)))
    /\ [][\A c \in TimedOut :
            (Running(c) /\ pc'[c] = "done")
            => /\ AtSend(c)
               /\ Len(chan'[c]) = 1
               /\ result'[c] = result[c]]_vars

\* the goroutine of a call that returned ctx.Err() has ended, after both
\* OnStart, and its result nil sits in the channel
C39_Witness ==
    \E c \in TimedOut :
        /\ kind[c] = "start"
        /\ pc[c] = "done"
        /\ startLog[c] = <<1, 2>>
        /\ chan[c] = <<Nil>>

Next ==
    \/ \E h \in Hook : Append_(h)
    \/ Start
    \/ Stop
    \/ CtxExpire
    \/ SelectCtxDone
    \/ SelectResult
    \/ \E c \in Calls : AppStartEnter(c)
    \/ \E c \in Calls : LifecycleStartIter(c)
    \/ \E c \in Calls : LifecycleStartReturn(c)
    \/ \E c \in Calls : LifecycleStartInc(c)
    \/ \E c \in Calls : LifecycleStopCond(c)
    \/ \E c \in Calls : LifecycleStopBody(c)
    \/ \E c \in Calls : LifecycleStopPost(c)
    \/ \E c \in Calls : LifecycleStopReturn(c)
    \/ \E c \in Calls : LifecycleStopDec(c)

Spec == Init /\ [][Next]_vars

====
